---- MODULE Spec2Model ----
(***************************************************************************)
(* Alert lifecycle and interactive remediation of Zabbix-Monitoring:       *)
(* the webhook handler (ai-services/webhook-handler/webhook.py) ingests an *)
(* alert, caches it in Redis and posts it to Telegram; the Telegram bot    *)
(* (ai-services/telegram-bot/bot.py) dispatches the button callbacks.      *)
(*                                                                         *)
(* Text is modelled as a sequence of atoms: an atom is a colon-free chunk  *)
(* of characters, the colon ":" itself or the double quote.  str.split and *)
(* f-string formatting are computed on these sequences.                    *)
(***************************************************************************)
EXTENDS Integers, Sequences, FiniteSets, TLC

VARIABLES
    cfg,     \* module-level configuration of both services, fixed at startup
    cache,   \* the Redis store: key -> <<>> (absent) or <<[ttl, val]>>
    msgs,    \* the Telegram chat: the messages as they are displayed now
    ticks,   \* number of clock steps taken
    posts,   \* number of alerts Zabbix has posted to the webhook
    acked,   \* the alert ids an ack has put the ACKNOWLEDGED banner on (history)
    last,    \* record of the most recent unit of work (history variable)
    pending, \* webhook requests between the sendMessage answer and the setex
    recent,  \* alert id -> namespace of its latest stored message (history)
    inflight \* ack / ignore handlers between the message edit and the setex

vars == <<cfg, cache, msgs, ticks, posts, acked, last, pending, recent, inflight>>

----------------------------------------------------------------------------
(* Bounds *)

MaxPosts == 1
MaxTicks == 2
MaxReposts == 2
MaxMarks == 2
MaxWords == 2
TickStep == 1800

(* Program constants *)

TTL == 3600
ADMIN_ID == 1081490318
GUEST_ID == 999999999
\* the id of the commented-out OPERATOR row of USER_ROLES
UNLISTED_OPERATOR_ID == 987654321

----------------------------------------------------------------------------
(* Text *)

Colon == ":"
Quote == "\""

RECURSIVE Join(_)
\* f"{a}:{b}:..." : the fields joined by colons
Join(fields) ==
    IF Len(fields) = 0 THEN <<>>
    ELSE IF Len(fields) = 1 THEN fields[1]
    ELSE fields[1] \o <<Colon>> \o Join(Tail(fields))

FirstAt(s, sep) ==
    IF \E i \in 1..Len(s) : s[i] = sep
    THEN CHOOSE i \in 1..Len(s) : s[i] = sep /\ \A j \in 1..(i-1) : s[j] # sep
    ELSE 0

RECURSIVE SplitOn(_, _)
\* str.split(sep)
SplitOn(s, sep) ==
    LET i == FirstAt(s, sep) IN
    IF i = 0 THEN <<s>>
    ELSE <<SubSeq(s, 1, i-1)>> \o SplitOn(SubSeq(s, i+1, Len(s)), sep)

Contains(s, atom) == \E i \in 1..Len(s) : s[i] = atom

\* str.startswith(verb + ':')
StartsWithVerb(s, verb) == Len(s) >= 2 /\ s[1] = verb /\ s[2] = Colon

----------------------------------------------------------------------------
(* Input domains *)

Host == <<"h">>
EventIds == {<<>>, <<"e1">>}
Alert(trigger, event_id) == [trigger |-> trigger, host |-> Host, event_id |-> event_id]

TrigCpu == <<"high", "cpu", "utilization">>
TrigService == <<"service", Quote, "nginx", Quote, "is", "not", "running">>
TrigServiceColon == <<"service", Quote, "a", Colon, "b", Quote, "stopped">>
TrigFiltered == <<"service", Quote, "gupdate", Quote, "is", "not", "running">>
\* the alert payloads Zabbix posts, after webhook() has standardized the fields
Alerts == {Alert(TrigCpu, <<"e1">>), Alert(TrigService, <<"e1">>),
           Alert(TrigServiceColon, <<"e1">>), Alert(TrigFiltered, <<"e1">>),
           Alert(TrigCpu, <<>>)}

\* one line of `top` output as the process regular expression reads it
ProcNginx == [pid |-> <<"4821">>, cpu |-> 92, command |-> <<"nginx">>]
ProcIdle == [pid |-> <<"77">>, cpu |-> 3, command |-> <<"cron">>]
\* the executor's result payload of gather_system_metrics
AnsibleResults == { [metrics |-> [cpu |-> <<>>]],
                    [metrics |-> [cpu |-> <<ProcNginx, ProcIdle>>]] }

ExecOutcomes == {"success", "failed", "non200", "timeout", "exception"}
SendOutcomes == {"ok", "not_ok", "http_error", "exception"}
Users == {ADMIN_ID, GUEST_ID}

\* startup configurations: everything configured, or exactly one piece missing
Configs ==
    LET all == [wh_redis |-> TRUE, bot_redis |-> TRUE, wh_groq |-> TRUE,
                bot_groq |-> TRUE, tg_creds |-> TRUE]
    IN {all, [all EXCEPT !.wh_redis = FALSE], [all EXCEPT !.bot_redis = FALSE],
        [all EXCEPT !.wh_groq = FALSE], [all EXCEPT !.bot_groq = FALSE],
        [all EXCEPT !.tg_creds = FALSE]}

----------------------------------------------------------------------------
(* Authorization Service (bot.py) *)

USER_ROLES == [u \in {ADMIN_ID} |-> "ADMIN"]

RoleOrder == <<"ADMIN", "OPERATOR", "VIEWER">>

\* the VIEWER row also lists 'fix' (a defect in the table)
ROLE_PERMISSIONS_viewer_fix ==
    [ADMIN |-> <<"fix", "restart", "diag", "ack", "ignore", "rollback">>,
     OPERATOR |-> <<"restart", "diag", "ack", "ignore">>,
     VIEWER |-> <<"diag", "ack", "fix">>]

ROLE_PERMISSIONS ==
    [r \in {"ADMIN", "OPERATOR", "VIEWER"} |->
        CASE r = "ADMIN" -> <<"fix", "restart", "diag", "ack", "ignore", "rollback">>
          [] r = "OPERATOR" -> <<"restart", "diag", "ack", "ignore">>
          [] r = "VIEWER" -> <<"diag", "ack">>]

\* callers outside the table get OPERATOR (a defect in the default)
get_user_role_default_operator(user_id) ==
    IF user_id \in DOMAIN USER_ROLES THEN USER_ROLES[user_id] ELSE "OPERATOR"

get_user_role(user_id) ==
    IF user_id \in DOMAIN USER_ROLES THEN USER_ROLES[user_id] ELSE "VIEWER"

InList(x, list) == \E i \in 1..Len(list) : list[i] = x

\* the roles whose permission list holds the action, in table order
RolesWith(action) ==
    SelectSeq(RoleOrder, LAMBDA r : InList(action, ROLE_PERMISSIONS[r]))

\* the permission list is looked up under OPERATOR whoever calls (a defect
\* that ignores the caller's role)
is_authorized_any_operator(user_id, action) ==
    LET role == get_user_role(user_id)
        permissions == ROLE_PERMISSIONS["OPERATOR"]
    IN IF InList(action, permissions)
       THEN [allowed |-> TRUE, msg |-> <<"Authorized as", role>>]
       ELSE [allowed |-> FALSE,
             msg |-> <<"Permission denied.", action, "requires">>
                     \o RolesWith(action) \o <<"role.">>]

is_authorized(user_id, action) ==
    LET role == get_user_role(user_id)
        permissions == ROLE_PERMISSIONS[role]
    IN IF InList(action, permissions)
       THEN [allowed |-> TRUE, msg |-> <<"Authorized as", role>>]
       ELSE [allowed |-> FALSE,
             msg |-> <<"Permission denied.", action, "requires">>
                     \o RolesWith(action) \o <<"role.">>]

full_name(user_id) == IF user_id = ADMIN_ID THEN "admin" ELSE "guest"

----------------------------------------------------------------------------
(* State Cache (Redis) *)

Namespaces == {"original_alert", "acknowledged_alert", "alert_data"}
Keys == Namespaces \X EventIds

\* redis_client.get(key): <<>> when the key is absent or expired
CacheGet(c, key) == IF key \in DOMAIN c THEN c[key] ELSE <<>>

\* an entry that exists keeps its message text and takes the other fields of
\* the new value (a defect that writes a stored message field by field)
CacheSetexKeepText(c, key, ttl, val) ==
    IF key \notin DOMAIN c THEN c
    ELSE IF c[key] # <<>> /\ "message_text" \in DOMAIN val
    THEN [c EXCEPT ![key] =
            <<[ttl |-> ttl,
               val |-> [val EXCEPT !.message_text = c[key][1].val.message_text]]>>]
    ELSE [c EXCEPT ![key] = <<[ttl |-> ttl, val |-> val]>>]

\* redis_client.setex(key, ttl, value)
CacheSetex(c, key, ttl, val) ==
    IF key \in DOMAIN c THEN [c EXCEPT ![key] = <<[ttl |-> ttl, val |-> val]>>]
    ELSE c

\* the passage of d seconds: an entry disappears when its TTL has elapsed
Expire(c, d) ==
    [k \in DOMAIN c |->
        IF c[k] # <<>> /\ c[k][1].ttl > d
        THEN <<[ttl |-> c[k][1].ttl - d, val |-> c[k][1].val]>>
        ELSE <<>>]

\* hashlib.md5(...).hexdigest(): a digest determined by the text; two texts
\* are taken to have two digests
md5(text) == <<"md5", text>>

\* CacheManager.get_cache_key(alert_data)
get_cache_key(alert_data) ==
    LET key_data == alert_data.trigger \o alert_data.severity \o alert_data.host
    IN <<"groq:", md5(key_data)>>

----------------------------------------------------------------------------
(* Buttons *)

\* a button before formatting: its label and the values of its token
FB(text, fields) == [text |-> text, fields |-> fields]

\* {"text": ..., "callback_data": f"verb:{arg}:..."}
Render(fb) == [text |-> fb.text, callback_data |-> Join(fb.fields)]

RenderRows(rows) ==
    [i \in 1..Len(rows) |-> [j \in 1..Len(rows[i]) |-> Render(rows[i][j])]]

\* the field tuples of every button of the rows
RowFields(rows) ==
    UNION {{rows[i][j].fields : j \in 1..Len(rows[i])} : i \in 1..Len(rows)}

ButtonsOf(rows) ==
    UNION {{rows[i][j] : j \in 1..Len(rows[i])} : i \in 1..Len(rows)}

NoCall == <<>>
Call(to, what, arg) == [to |-> to, what |-> what, arg |-> arg]

----------------------------------------------------------------------------
(* Alert Ingestion Pipeline (webhook.py) *)

IGNORED_SERVICES == <<"appxsvc", "googleupdater", "googleupdaterinternal",
                      "googleupdaterservice", "edgeupdate", "gupdate",
                      "remoteregistry">>

IGNORED_DISK_PATHS == <<"/etc/hostname", "/etc/hosts", "/etc/resolv.conf",
                        "/etc/localtime", "/etc/timezone", "/run/secrets">>

should_skip_alert(alert_data) ==
    LET trigger == alert_data.trigger IN
    \/ \E i \in 1..Len(IGNORED_SERVICES) : Contains(trigger, IGNORED_SERVICES[i])
    \/ \E i \in 1..Len(IGNORED_DISK_PATHS) : Contains(trigger, IGNORED_DISK_PATHS[i])

\* 'NOT RUNNING' in trigger_upper
ContainsPair(s, a, b) == \E i \in 1..(Len(s) - 1) : s[i] = a /\ s[i+1] = b

\* str.upper() on the words of the vocabulary; a word written in capitals, a
\* number and a punctuation mark are their own upper case
Upper(word) ==
    CASE word \in {"cpu", "Cpu"} -> "CPU"
      [] word \in {"load", "Load"} -> "LOAD"
      [] word = "download" -> "DOWNLOAD"
      [] word \in {"memory", "Memory"} -> "MEMORY"
      [] word = "swap" -> "SWAP"
      [] word = "ram" -> "RAM"
      [] word = "program" -> "PROGRAM"
      [] word \in {"disk", "Disk"} -> "DISK"
      [] word = "space" -> "SPACE"
      [] word = "volume" -> "VOLUME"
      [] word = "network" -> "NETWORK"
      [] word = "interface" -> "INTERFACE"
      [] word = "bandwidth" -> "BANDWIDTH"
      [] word \in {"service", "Service"} -> "SERVICE"
      [] word = "stopped" -> "STOPPED"
      [] word = "not" -> "NOT"
      [] word = "running" -> "RUNNING"
      [] word = "is" -> "IS"
      [] word = "high" -> "HIGH"
      [] word = "utilization" -> "UTILIZATION"
      [] word = "random" -> "RANDOM"
      [] OTHER -> word

UpperText(text) == [i \in 1..Len(text) |-> Upper(text[i])]

\* the one-word keywords of determine_alert_type that occur in a word
\* (`in` is substring containment: 'RAM' in 'PROGRAM')
KeywordsIn(word) ==
    CASE word \in {"CPU", "LOAD", "MEMORY", "SWAP", "RAM", "DISK", "SPACE",
                   "VOLUME", "NETWORK", "INTERFACE", "BANDWIDTH", "SERVICE",
                   "STOPPED"} -> {word}
      [] word = "DOWNLOAD" -> {"LOAD"}
      [] word = "PROGRAM" -> {"RAM"}
      [] OTHER -> {}

\* 'KEYWORD' in trigger_upper
HasKeyword(text, keyword) == \E i \in 1..Len(text) : keyword \in KeywordsIn(text[i])

\* the keywords are compared with the trigger as it is written (a defect that
\* loses the .upper())
determine_alert_type_case_sensitive(trigger_name) ==
    LET trigger_upper == trigger_name IN
    IF HasKeyword(trigger_upper, "CPU") \/ HasKeyword(trigger_upper, "LOAD")
    THEN "CPU"
    ELSE IF HasKeyword(trigger_upper, "MEMORY") \/ HasKeyword(trigger_upper, "SWAP")
            \/ HasKeyword(trigger_upper, "RAM") THEN "MEMORY"
    ELSE IF HasKeyword(trigger_upper, "DISK") \/ HasKeyword(trigger_upper, "SPACE")
            \/ HasKeyword(trigger_upper, "VOLUME") THEN "DISK"
    ELSE IF HasKeyword(trigger_upper, "NETWORK")
            \/ HasKeyword(trigger_upper, "INTERFACE")
            \/ HasKeyword(trigger_upper, "BANDWIDTH") THEN "NETWORK"
    ELSE IF HasKeyword(trigger_upper, "SERVICE")
            \/ ContainsPair(trigger_upper, "NOT", "RUNNING")
            \/ HasKeyword(trigger_upper, "STOPPED") THEN "SERVICE"
    ELSE "UNKNOWN"

\* GroqAnalyzer.determine_alert_type(trigger_name)
determine_alert_type(trigger_name) ==
    LET trigger_upper == UpperText(trigger_name) IN
    IF HasKeyword(trigger_upper, "CPU") \/ HasKeyword(trigger_upper, "LOAD")
    THEN "CPU"
    ELSE IF HasKeyword(trigger_upper, "MEMORY") \/ HasKeyword(trigger_upper, "SWAP")
            \/ HasKeyword(trigger_upper, "RAM") THEN "MEMORY"
    ELSE IF HasKeyword(trigger_upper, "DISK") \/ HasKeyword(trigger_upper, "SPACE")
            \/ HasKeyword(trigger_upper, "VOLUME") THEN "DISK"
    ELSE IF HasKeyword(trigger_upper, "NETWORK")
            \/ HasKeyword(trigger_upper, "INTERFACE")
            \/ HasKeyword(trigger_upper, "BANDWIDTH") THEN "NETWORK"
    ELSE IF HasKeyword(trigger_upper, "SERVICE")
            \/ ContainsPair(trigger_upper, "NOT", "RUNNING")
            \/ HasKeyword(trigger_upper, "STOPPED") THEN "SERVICE"
    ELSE "UNKNOWN"

\* what requests.post to the executor API does, as run_diagnostics sees it:
\* an exception, or a response with an HTTP status and a body status
DiagResponse(outcome) ==
    CASE outcome = "success" -> [raised |-> "", code |-> 200, status |-> "success"]
      [] outcome = "failed" -> [raised |-> "", code |-> 200, status |-> "failed"]
      [] outcome = "non200" -> [raised |-> "", code |-> 500, status |-> "failed"]
      [] outcome = "timeout" -> [raised |-> "Timeout", code |-> 0, status |-> ""]
      [] outcome = "unreachable" ->
           [raised |-> "ConnectionError", code |-> 0, status |-> ""]
      [] OTHER -> [raised |-> "Exception", code |-> 0, status |-> ""]

\* the body status is not looked at (a defect that drops the status test)
run_diagnostics_any_status(outcome, result) ==
    LET response == DiagResponse(outcome) IN
    IF response.raised # "" THEN <<>>
    ELSE IF response.code # 200 THEN <<>>
    ELSE <<result>>

\* AnsibleExecutor.run_diagnostics: the result payload, or None (<<>>)
run_diagnostics(outcome, result) ==
    LET response == DiagResponse(outcome) IN
    IF response.raised = "Timeout" THEN <<>>
    ELSE IF response.raised = "ConnectionError" THEN <<>>
    ELSE IF response.raised # "" THEN <<>>
    ELSE IF response.code # 200 THEN <<>>
    ELSE IF response.status # "success" THEN <<>>
    ELSE <<result>>

\* the keyboard send_telegram_alert builds, before formatting
AlertKeyboard(alert_data, enable_ai_button) ==
    LET hostname == alert_data.host
        trigger_name == alert_data.trigger
        event_id == alert_data.event_id
        alert_type == determine_alert_type(trigger_name)
        service_name == IF Contains(trigger_name, Quote)
                        THEN SplitOn(trigger_name, Quote)[2]
                        ELSE <<"Unknown">>
        ai == IF enable_ai_button /\ event_id # <<>>
              THEN << <<FB("Get AI Analysis", <<<<"ai_analysis">>, event_id>>)>> >>
              ELSE <<>>
        specific ==
            IF alert_type = "SERVICE"
            THEN << <<FB("Restart Service",
                         <<<<"restart_service">>, hostname, service_name>>)>>,
                    <<FB("Check Status",
                         <<<<"check_service">>, hostname, service_name>>)>> >>
            ELSE << <<FB("Run Diagnostics", <<<<"diagnostics">>, hostname>>)>> >>
        common == << <<FB("Acknowledge", <<<<"ack">>, event_id>>),
                       FB("Ignore", <<<<"ignore">>, event_id>>)>> >>
    IN ai \o specific \o common

\* a sendMessage answer other than 200 writes the original alert (a defect
\* that inverts the status test)
StoreOriginalInverted(send, event_id, rfault) ==
    send # "ok" /\ cfg.wh_redis /\ event_id # <<>> /\ ~rfault

\* whether send_telegram_alert caches the message it has sent: the request
\* answered 200 with ok, the cache is connected and the alert has an id
StoreOriginal(send, event_id, rfault) ==
    send = "ok" /\ cfg.wh_redis /\ event_id # <<>> /\ ~rfault

\* the original alert is stored for twice the hour, the default of
\* CacheManager.set (a defect in the TTL)
CacheOriginalLongLived(c, event_id, message, buttons) ==
    CacheSetex(c, <<"original_alert", event_id>>, 2 * TTL,
               [message_text |-> message, buttons |-> buttons])

\* redis_client.setex(f"original_alert:{event_id}", 3600, original_alert_data)
CacheOriginal(c, event_id, message, buttons) ==
    CacheSetex(c, <<"original_alert", event_id>>, TTL,
               [message_text |-> message, buttons |-> buttons])

\* send_telegram_alert(message, alert_data, enable_ai_button)
\*   send   : what the Telegram sendMessage request does
\*   rfault : the Redis write of the original alert raises
send_telegram_alert(c, message, alert_data, enable_ai_button, send, rfault) ==
    LET rows == AlertKeyboard(alert_data, enable_ai_button)
        buttons == RenderRows(rows)
        event_id == alert_data.event_id
        key == <<"original_alert", event_id>>
        store == StoreOriginal(send, event_id, rfault)
    IN IF ~cfg.tg_creds
       THEN [cache |-> c, posted |-> <<>>, calls |-> NoCall, rendered |-> {},
             writes |-> {}]
       ELSE [cache |-> IF store
                       THEN CacheOriginal(c, event_id, message, buttons)
                       ELSE c,
             posted |-> IF send = "ok"
                        THEN <<[text |-> message, buttons |-> buttons]>>
                        ELSE <<>>,
             calls |-> <<Call("telegram", "sendMessage", event_id)>>,
             rendered |-> RowFields(rows),
             writes |-> IF store THEN {key} ELSE {}]

\* the message text webhook() formats for an alert that is not filtered
AlertText(alert_data, ansible_data) ==
    <<"alert">> \o alert_data.trigger \o <<"host">> \o alert_data.host
    \o (IF alert_data.event_id # <<>> THEN <<"ID">> \o alert_data.event_id ELSE <<>>)
    \o (IF ansible_data # <<>> THEN <<"metrics">> ELSE <<>>)
    \o <<"press AI analysis">>

FilteredText(alert_data) ==
    <<"filtered">> \o alert_data.trigger \o <<"host">> \o alert_data.host

\* POST /webhook giving up when the diagnostics brought nothing (a defect that
\* aborts the request on a failed diagnostic call)
webhook_abort_without_diagnostics(c, alert_data, diag, result, send, rfault, dfault) ==
    IF ~cfg.wh_groq
    THEN [http |-> 500, cache |-> c, posted |-> <<>>, calls |-> NoCall,
          rendered |-> {}, writes |-> {}]
    ELSE IF should_skip_alert(alert_data)
    THEN LET s == send_telegram_alert(c, FilteredText(alert_data), alert_data,
                                      FALSE, send, rfault)
         IN [http |-> 200, cache |-> s.cache, posted |-> s.posted,
             calls |-> s.calls, rendered |-> s.rendered, writes |-> s.writes]
    ELSE IF run_diagnostics(diag, result) = <<>>
    THEN [http |-> 500, cache |-> c, posted |-> <<>>,
          calls |-> <<Call("executor", "gather_system_metrics", alert_data.host)>>,
          rendered |-> {}, writes |-> {}]
    ELSE LET ansible_data == run_diagnostics(diag, result)
             event_id == alert_data.event_id
             key == <<"alert_data", event_id>>
             store == cfg.wh_redis /\ ~dfault
             c1 == IF store
                   THEN CacheSetex(c, key, TTL,
                            [alert |-> alert_data, ansible |-> ansible_data])
                   ELSE c
             s == send_telegram_alert(c1, AlertText(alert_data, ansible_data),
                                      alert_data, TRUE, send, rfault)
         IN [http |-> 200, cache |-> s.cache, posted |-> s.posted,
             calls |-> <<Call("executor", "gather_system_metrics", alert_data.host)>>
                       \o s.calls,
             rendered |-> s.rendered,
             writes |-> (IF store THEN {key} ELSE {}) \cup s.writes]

\* POST /webhook
\*   dfault : the Redis write of alert_data raises
webhook(c, alert_data, diag, result, send, rfault, dfault) ==
    IF ~cfg.wh_groq
    THEN \* require_api_key
         [http |-> 500, cache |-> c, posted |-> <<>>, calls |-> NoCall,
          rendered |-> {}, writes |-> {}]
    ELSE IF should_skip_alert(alert_data)
    THEN LET s == send_telegram_alert(c, FilteredText(alert_data), alert_data,
                                      FALSE, send, rfault)
         IN [http |-> 200, cache |-> s.cache, posted |-> s.posted,
             calls |-> s.calls, rendered |-> s.rendered, writes |-> s.writes]
    ELSE LET ansible_data == run_diagnostics(diag, result)
             event_id == alert_data.event_id
             key == <<"alert_data", event_id>>
             store == cfg.wh_redis /\ ~dfault
             c1 == IF store
                   THEN CacheSetex(c, key, TTL,
                            [alert |-> alert_data, ansible |-> ansible_data])
                   ELSE c
             s == send_telegram_alert(c1, AlertText(alert_data, ansible_data),
                                      alert_data, TRUE, send, rfault)
         IN [http |-> 200, cache |-> s.cache, posted |-> s.posted,
             calls |-> <<Call("executor", "gather_system_metrics", alert_data.host)>>
                       \o s.calls,
             rendered |-> s.rendered,
             writes |-> (IF store THEN {key} ELSE {}) \cup s.writes]

----------------------------------------------------------------------------
(* Interactive Action Dispatcher (bot.py): the handlers *)

None == <<"None">>
Unknown == <<"Unknown">>
Truthy(x) == x # <<>> /\ x # None

\* one query.edit_message_text(text, reply_markup=rows)
Show(text, rows) ==
    [text |-> text, buttons |-> RenderRows(rows), rendered |-> RowFields(rows)]

\* an edit whose buttons come formatted from the cache
Restore(text, buttons) == [text |-> text, buttons |-> buttons, rendered |-> {}]

\* what one handler invocation did
Done(edits, c, calls, writes) ==
    [edits |-> edits, cache |-> c, calls |-> calls, writes |-> writes]

BackRow(event_id) ==
    IF Truthy(event_id)
    THEN << <<FB("Back to Alert", <<<<"back_to_alert">>, event_id>>)>> >>
    ELSE <<>>

\* requests.post(f"{ANSIBLE_API_URL}/api/v1/playbook/run", ...)
RunPlaybook(playbook, hostname, arg) == Call("executor", playbook, hostname \o arg)

\* result.get('error', 'Unknown error') of the executor's answer
ExecutorError == "executor error text"

\* response.text[:200]: the head of the raw body of the executor's answer
ResponseText == "response.text[:200]"

\* the timeout branch returns without editing the message (a defect)
execute_service_restart_silent_timeout(c, hostname, service_name, exec) ==
    LET progress == Show(<<"Restarting service...", "Please wait...">>, <<>>)
        final == Show(<<"Restart finished">>, <<>>)
    IN Done(IF exec = "timeout" THEN <<progress>> ELSE <<progress, final>>, c,
            <<RunPlaybook("restart_service", hostname, service_name)>>, {})

execute_service_restart(c, hostname, service_name, exec) ==
    LET progress == Show(<<"Restarting service...", "Please wait...">>, <<>>)
        final ==
            CASE exec = "success" ->
                   Show(<<"Service Restarted Successfully", "Duration">>, <<>>)
              [] exec = "failed" -> Show(<<"Restart Failed", ExecutorError>>, <<>>)
              [] exec = "non200" -> Show(<<"API Error", ResponseText>>, <<>>)
              [] exec = "timeout" -> Show(<<"Timeout">>, <<>>)
              [] OTHER -> Show(<<"Error", "Failed to restart service">>, <<>>)
    IN Done(<<progress, final>>, c,
            <<RunPlaybook("restart_service", hostname, service_name)>>, {})

\* status: the service state the check_service playbook reports
check_service_status(c, hostname, service_name, exec, status) ==
    LET progress == Show(<<"Checking service status...">>, <<>>)
        keyboard ==
            IF status # "running"
            THEN << <<FB("Start Service",
                         <<<<"restart_service">>, hostname, service_name>>)>> >>
            ELSE <<>>
        final ==
            CASE exec = "success" -> Show(<<"Service Status", status>>, keyboard)
              [] exec = "failed" -> Show(<<"Check Failed", ExecutorError>>, <<>>)
              [] exec = "non200" -> Show(<<"API Error">>, <<>>)
              [] OTHER -> Show(<<"Error", "Failed to check service">>, <<>>)
    IN Done(<<progress, final>>, c,
            <<RunPlaybook("check_service", hostname, service_name)>>, {})

execute_host_diagnostic(c, data, hostname, exec) ==
    LET progress == Show(<<"Running diagnostics...", "Gathering system metrics...">>,
                         <<>>)
        parts == SplitOn(data, Colon)
        \* diagnostics:hostname:event_id
        event_id == IF Contains(data, Colon) /\ Len(parts) >= 3
                    THEN parts[3] ELSE None
        final ==
            CASE exec = "success" ->
                   Show(<<"Diagnostic Report", "Diagnostic complete">>,
                        BackRow(event_id))
              [] exec = "failed" -> Show(<<"Diagnostic Failed", ExecutorError>>, <<>>)
              [] exec = "non200" -> Show(<<"API Error">>, <<>>)
              [] OTHER -> Show(<<"Error", "Failed to run diagnostic">>, <<>>)
    IN Done(<<progress, final>>, c,
            <<RunPlaybook("gather_system_metrics", hostname, <<>>)>>, {})

handle_kill_pid(c, hostname, pid, event_id, exec) ==
    LET progress == Show(<<"Killing Process...", "Please wait...">>, <<>>)
        final ==
            CASE exec = "success" ->
                   Show(<<"Process Killed Successfully", "Duration">>,
                        BackRow(event_id))
              [] exec = "failed" ->
                   Show(<<"Kill Process Failed", ExecutorError>>, BackRow(event_id))
              [] exec = "non200" -> Show(<<"API Error">>, BackRow(event_id))
              [] exec = "timeout" -> Show(<<"Timeout">>, BackRow(event_id))
              [] OTHER -> Show(<<"Error", "Failed to kill process">>,
                               BackRow(event_id))
    IN Done(<<progress, final>>, c, <<RunPlaybook("kill_pid", hostname, pid)>>, {})

handle_kill_process(c, hostname, process_name, event_id, exec) ==
    LET progress == Show(<<"Killing Processes...", "Please wait...">>, <<>>)
        final ==
            CASE exec = "success" ->
                   Show(<<"Processes Killed Successfully", "Duration">>, <<>>)
              [] exec = "failed" ->
                   Show(<<"Kill Process Failed", ExecutorError>>, BackRow(event_id))
              [] exec = "non200" -> Show(<<"API Error">>, BackRow(event_id))
              [] exec = "timeout" -> Show(<<"Timeout">>, BackRow(event_id))
              [] OTHER -> Show(<<"Error", "Failed to kill process">>,
                               BackRow(event_id))
    IN Done(<<progress, final>>, c,
            <<RunPlaybook("kill_process", hostname, process_name)>>, {})

handle_check_logs(c, hostname, event_id, exec) ==
    LET progress == Show(<<"Fetching Logs...", "Please wait...">>, <<>>)
        final ==
            CASE exec = "success" -> Show(<<"System Logs">>, <<>>)
              [] exec = "failed" ->
                   Show(<<"Failed to Fetch Logs", ExecutorError>>, BackRow(event_id))
              [] exec = "non200" -> Show(<<"API Error">>, BackRow(event_id))
              [] OTHER -> Show(<<"Error", "Failed to fetch logs">>, BackRow(event_id))
    IN Done(<<progress, final>>, c, <<RunPlaybook("check_logs", hostname, <<>>)>>, {})

\* the placeholders of the legacy format: no request leaves the bot
execute_fix(c, event_id) ==
    Done(<<Show(<<"Executing fix", "Running diagnostic...">>, <<>>),
           Show(<<"Fix Completed Successfully">>, <<>>)>>, c, NoCall, {})

execute_diagnostic(c, event_id) ==
    Done(<<Show(<<"Running diagnostic for">>, <<>>),
           Show(<<"Diagnostic Report", "Next Steps">>,
                << <<FB("Fix Now", <<<<"confirm_fix">>, event_id>>)>>,
                   <<FB("Run Again", <<<<"diag">>, event_id>>)>> >>)>>,
         c, NoCall, {})

execute_restart(c, event_id) ==
    Done(<<Show(<<"Restarting service for">>, <<>>),
           Show(<<"Service restarted successfully for">>, <<>>)>>, c, NoCall, {})

----------------------------------------------------------------------------
(* Acknowledge, ignore, restore, analyse *)

\* drop only the acknowledge and ignore buttons (a defect that filters by a
\* deny list)
InformationalDenyList(button) ==
    /\ ~StartsWithVerb(button.callback_data, "ack")
    /\ ~StartsWithVerb(button.callback_data, "ignore")

\* keep the buttons whose token starts with 'ai_analysis:' or 'diagnostics:'
Informational(button) ==
    \/ StartsWithVerb(button.callback_data, "ai_analysis")
    \/ StartsWithVerb(button.callback_data, "diagnostics")

FilterButtons(original_buttons) ==
    LET rows == [i \in 1..Len(original_buttons) |->
                    SelectSeq(original_buttons[i], Informational)]
    IN SelectSeq(rows, LAMBDA row : row # <<>>)

\* the status badge put in front of the original text (the timestamp is left out)
Banner(status, user_id) == <<status, "By", full_name(user_id)>>

\* the original alert is deleted once its variant is stored (a defect that
\* invalidates a related key)
MarkAlertInvalidating(c, user_id, event_id, rfault, status, fallback, calls) ==
    LET key == <<"original_alert", event_id>>
        cached == IF cfg.bot_redis /\ ~rfault THEN CacheGet(c, key) ELSE <<>>
        original_message == IF cached # <<>> THEN cached[1].val.message_text ELSE <<>>
        original_buttons == IF cached # <<>> THEN cached[1].val.buttons ELSE <<>>
        filtered_buttons == FilterButtons(original_buttons)
        updated_message == Banner(status, user_id) \o original_message
        ack_key == <<"acknowledged_alert", event_id>>
    IN IF original_message # <<>>
       THEN Done(<<Restore(updated_message, filtered_buttons)>>,
                 [CacheSetex(c, ack_key, TTL,
                     [message_text |-> updated_message, buttons |-> filtered_buttons])
                  EXCEPT ![key] = <<>>],
                 calls, {ack_key})
       ELSE Done(<<Show(fallback, <<>>)>>, c, calls, {})

\* the banner is put in front of the stored variant when there is one (a
\* defect that stacks banners)
MarkAlertStackingBanner(c, user_id, event_id, rfault, status, fallback, calls) ==
    LET key == <<"original_alert", event_id>>
        ack_key == <<"acknowledged_alert", event_id>>
        variant == IF cfg.bot_redis /\ ~rfault THEN CacheGet(c, ack_key) ELSE <<>>
        cached == IF variant # <<>> THEN variant
                  ELSE IF cfg.bot_redis /\ ~rfault THEN CacheGet(c, key) ELSE <<>>
        original_message == IF cached # <<>> THEN cached[1].val.message_text ELSE <<>>
        original_buttons == IF cached # <<>> THEN cached[1].val.buttons ELSE <<>>
        filtered_buttons == FilterButtons(original_buttons)
        updated_message == Banner(status, user_id) \o original_message
    IN IF original_message # <<>>
       THEN Done(<<Restore(updated_message, filtered_buttons)>>,
                 CacheSetex(c, ack_key, TTL,
                     [message_text |-> updated_message, buttons |-> filtered_buttons]),
                 calls, {ack_key})
       ELSE Done(<<Show(fallback, <<>>)>>, c, calls, {})

\* the part of acknowledge_alert and ignore_alert that follows the upstream call
MarkAlert(c, user_id, event_id, rfault, status, fallback, calls) ==
    LET key == <<"original_alert", event_id>>
        cached == IF cfg.bot_redis /\ ~rfault THEN CacheGet(c, key) ELSE <<>>
        original_message == IF cached # <<>> THEN cached[1].val.message_text ELSE <<>>
        original_buttons == IF cached # <<>> THEN cached[1].val.buttons ELSE <<>>
        filtered_buttons == FilterButtons(original_buttons)
        updated_message == Banner(status, user_id) \o original_message
        ack_key == <<"acknowledged_alert", event_id>>
    IN IF original_message # <<>>
       THEN Done(<<Restore(updated_message, filtered_buttons)>>,
                 CacheSetex(c, ack_key, TTL,
                     [message_text |-> updated_message, buttons |-> filtered_buttons]),
                 calls, {ack_key})
       ELSE Done(<<Show(fallback, <<>>)>>, c, calls, {})

\* zbx: what zabbix_client.call("event.acknowledge", ...) does
acknowledge_alert(c, user_id, event_id, zbx, rfault) ==
    LET calls == <<Call("zabbix", "event.acknowledge", event_id)>> IN
    CASE zbx = "exception" ->
           Done(<<Show(<<"Acknowledge Failed", "Please check Zabbix connection">>,
                       <<>>)>>, c, calls, {})
      [] zbx = "empty" ->
           Done(<<Show(<<"Acknowledge Request Sent">>, <<>>)>>, c, calls, {})
      [] OTHER ->
           MarkAlert(c, user_id, event_id, rfault, "ACKNOWLEDGED",
                     <<"Alert Acknowledged", "Status updated in Zabbix">>, calls)

ignore_alert(c, user_id, event_id, rfault) ==
    MarkAlert(c, user_id, event_id, rfault, "IGNORED",
              <<"Alert Ignored", "This alert will be suppressed">>, NoCall)

\* only the acknowledged variant is looked up (a defect that loses the
\* second lookup)
StoredAlertVariantOnly(c, event_id) ==
    CacheGet(c, <<"acknowledged_alert", event_id>>)

\* the original alert is looked up before the acknowledged variant (a defect
\* that swaps the two lookups)
StoredAlertOriginalFirst(c, event_id) ==
    LET acknowledged_alert == CacheGet(c, <<"acknowledged_alert", event_id>>)
        cached_alert == CacheGet(c, <<"original_alert", event_id>>)
    IN IF cached_alert # <<>> THEN cached_alert ELSE acknowledged_alert

\* the stored message handle_back_to_alert restores: the acknowledged or
\* ignored variant first, the original alert otherwise
StoredAlert(c, event_id) ==
    LET acknowledged_alert == CacheGet(c, <<"acknowledged_alert", event_id>>)
        cached_alert == CacheGet(c, <<"original_alert", event_id>>)
    IN IF acknowledged_alert # <<>> THEN acknowledged_alert ELSE cached_alert

\* the restored message is stored again as the original alert (a defect that
\* makes a read-only verb write)
handle_back_to_alert_refreshing(c, event_id, rfault) ==
    LET stored == StoredAlert(c, event_id)
        cached_data == CacheGet(c, <<"alert_data", event_id>>)
        alert_data == cached_data[1].val.alert
        edit ==
            IF ~cfg.bot_redis
            THEN Show(<<"Redis Not Available", "Cannot restore original alert.">>, <<>>)
            ELSE IF rfault
            THEN Show(<<"Error", "Failed to restore alert">>, <<>>)
            ELSE IF stored # <<>>
            THEN Restore(stored[1].val.message_text, stored[1].val.buttons)
            ELSE IF cached_data # <<>>
            THEN Show(<<"Alert Restored">> \o alert_data.trigger \o <<"host">>
                        \o alert_data.host,
                      << <<FB("Get AI Analysis", <<<<"ai_analysis">>, event_id>>)>>,
                         <<FB("Run Diagnostics",
                              <<<<"diagnostics">>, alert_data.host>>)>> >>)
            ELSE Show(<<"Original Alert Not Found", "Alert cache has expired.">>, <<>>)
    IN IF cfg.bot_redis /\ ~rfault /\ stored # <<>>
       THEN Done(<<edit>>,
                 CacheSetex(c, <<"original_alert", event_id>>, TTL, stored[1].val),
                 NoCall, {<<"original_alert", event_id>>})
       ELSE Done(<<edit>>, c, NoCall, {})

handle_back_to_alert(c, event_id, rfault) ==
    LET stored == StoredAlert(c, event_id)
        cached_data == CacheGet(c, <<"alert_data", event_id>>)
        alert_data == cached_data[1].val.alert
        edit ==
            IF ~cfg.bot_redis
            THEN Show(<<"Redis Not Available", "Cannot restore original alert.">>, <<>>)
            ELSE IF rfault
            THEN Show(<<"Error", "Failed to restore alert">>, <<>>)
            ELSE IF stored # <<>>
            THEN Restore(stored[1].val.message_text, stored[1].val.buttons)
            ELSE IF cached_data # <<>>
            THEN Show(<<"Alert Restored">> \o alert_data.trigger \o <<"host">>
                        \o alert_data.host,
                      << <<FB("Get AI Analysis", <<<<"ai_analysis">>, event_id>>)>>,
                         <<FB("Run Diagnostics",
                              <<<<"diagnostics">>, alert_data.host>>)>> >>)
            ELSE Show(<<"Original Alert Not Found", "Alert cache has expired.">>, <<>>)
    IN Done(<<edit>>, c, NoCall, {})

\* the processes of the cached diagnostic that use more than 5% CPU, five at most
TopProcesses(ansible_data) ==
    LET cpu_data == IF ansible_data # <<>> THEN ansible_data[1].metrics.cpu ELSE <<>>
        busy == SelectSeq(cpu_data, LAMBDA proc : proc.cpu > 5)
    IN SubSeq(busy, 1, IF Len(busy) < 5 THEN Len(busy) ELSE 5)

\* the follow-up buttons execute_ai_analysis derives
AnalysisKeyboard(alert_data, ansible_data, analysis_text, event_id) ==
    LET hostname == alert_data.host
        alert_name == alert_data.trigger
        top_processes == TopProcesses(ansible_data)
        kill ==
            IF top_processes # <<>>
            THEN << <<FB("Kill Process (select below):", <<<<"noop">>>>)>> >>
                 \o [i \in 1..Len(top_processes) |->
                       <<FB("Kill PID",
                            <<<<"kill_pid">>, hostname, top_processes[i].pid,
                              event_id>>)>>]
            ELSE IF Contains(alert_name, "cpu") \/ Contains(alert_name, "load")
                    \/ Contains(analysis_text, "cpu")
            THEN << <<FB("Kill All Stress Processes",
                         <<<<"kill_process">>, hostname, <<"stress">>, event_id>>)>> >>
            ELSE <<>>
        service ==
            IF Contains(alert_name, "service") \/ Contains(analysis_text, "service")
            THEN << <<FB("Restart Service",
                         <<<<"restart_service">>, hostname, <<"unknown">>,
                           event_id>>)>> >>
            ELSE <<>>
    IN kill \o service
       \o << <<FB("Check Logs", <<<<"check_logs">>, hostname, event_id>>)>> >>
       \o BackRow(event_id)

\* a cache miss is not detected and the provider is asked about an empty
\* alert (a defect)
execute_ai_analysis_unchecked_miss(c, event_id, groq, rfault) ==
    LET progress == Show(<<"Generating AI Analysis...", "Please wait...">>, <<>>)
        request == <<Call("groq", "chat.completions.create", event_id)>>
    IN IF ~cfg.bot_redis \/ rfault
       THEN Done(<<progress, Show(<<"Cache Retrieval Error">>, <<>>)>>, c, NoCall, {})
       ELSE Done(<<progress, Show(<<"AI Analysis">> \o groq.text, BackRow(event_id))>>,
                 c, request, {})

\* groq: what the chat completion request does
execute_ai_analysis(c, event_id, groq, rfault) ==
    LET progress == Show(<<"Generating AI Analysis...", "Please wait...">>, <<>>)
        cached_data == CacheGet(c, <<"alert_data", event_id>>)
        full_alert_data == cached_data[1].val
        request == <<Call("groq", "chat.completions.create", event_id)>>
    IN IF ~cfg.bot_redis
       THEN Done(<<progress,
                   Show(<<"Redis Not Available", "Cannot retrieve alert data.">>,
                        <<>>)>>, c, NoCall, {})
       ELSE IF rfault
       THEN Done(<<progress, Show(<<"Cache Retrieval Error">>, <<>>)>>, c, NoCall, {})
       ELSE IF cached_data = <<>>
       THEN Done(<<progress,
                   Show(<<"Alert Data Not Found",
                          "Alert data expired or not available.">>, <<>>)>>,
                 c, NoCall, {})
       ELSE IF ~cfg.bot_groq
       THEN Done(<<progress, Show(<<"Groq API Not Configured">>, <<>>)>>,
                 c, NoCall, {})
       ELSE IF ~groq.ok
       THEN Done(<<progress, Show(<<"AI Analysis Failed">>, BackRow(event_id))>>,
                 c, request, {})
       ELSE Done(<<progress,
                   Show(<<"AI Analysis">> \o groq.text,
                        AnalysisKeyboard(full_alert_data.alert,
                                         full_alert_data.ansible, groq.text,
                                         event_id))>>,
                 c, request, {})

----------------------------------------------------------------------------
(* The dispatcher *)

\* parts[i] if len(parts) > i else default  (i counted from 0 in the code)
Part(parts, i, default) == IF Len(parts) > i THEN parts[i + 1] ELSE default

ReportTokens == {"report_daily", "report_week", "report_alerts",
                 "html_daily", "html_week", "html_alerts",
                 "email_daily", "email_week", "email_alerts"}

\* data.startswith("report_") or data.startswith("html_") or ...
IsReport(data) == Len(data) > 0 /\ data[1] \in ReportTokens

Denied(c, msg) == Done(<<Show(<<"[locked]">> \o msg, <<>>)>>, c, NoCall, {})

Reply(c, text) == Done(<<Show(text, <<>>)>>, c, NoCall, {})

HostVerbs == {<<"restart_service">>, <<"check_service">>}
KillVerbs == {<<"kill_pid">>, <<"kill_process">>}
LegacyVerbs == {<<"confirm_fix">>, <<"diag">>, <<"restart">>, <<"ack">>,
                <<"ignore">>, <<"cancel">>}

\* the verb and the arguments button_callback reads from a token
Decode(data) ==
    LET parts == SplitOn(data, Colon)
        action == parts[1]
    IN CASE action \in HostVerbs ->
              <<action, Part(parts, 1, Unknown), Part(parts, 2, Unknown)>>
         [] action = <<"diagnostics">> -> <<action, Part(parts, 1, Unknown)>>
         [] action = <<"kill_pid">> ->
              <<action, Part(parts, 1, Unknown), Part(parts, 2, None),
                Part(parts, 3, None)>>
         [] action = <<"kill_process">> ->
              <<action, Part(parts, 1, Unknown), Part(parts, 2, Unknown),
                Part(parts, 3, None)>>
         [] action = <<"check_logs">> ->
              <<action, Part(parts, 1, Unknown), Part(parts, 2, None)>>
         [] action \in {<<"back_to_alert">>, <<"ai_analysis">>} ->
              <<action, Part(parts, 1, None)>>
         \* legacy format: action:event_id
         [] action \in LegacyVerbs -> <<action, Part(parts, 1, None)>>
         [] OTHER -> <<action>>

\* button_callback without its final else (a defect that leaves a token of an
\* unknown verb unanswered)
button_callback_no_default(c, user_id, data, x) ==
    LET args == Decode(data)
        action == args[1]
        fix == is_authorized(user_id, "fix")
        restart == is_authorized(user_id, "restart")
    IN
    IF IsReport(data)
    THEN Done(<<>>, c, <<Call("reports", data[1], <<>>)>>, {})
    ELSE IF action = <<"restart_service">>
    THEN IF ~restart.allowed THEN Denied(c, restart.msg)
         ELSE execute_service_restart(c, args[2], args[3], x.exec)
    ELSE IF action = <<"check_service">>
    THEN check_service_status(c, args[2], args[3], x.exec, x.status)
    ELSE IF action = <<"diagnostics">>
    THEN execute_host_diagnostic(c, data, args[2], x.exec)
    ELSE IF action = <<"kill_pid">>
    THEN IF ~fix.allowed THEN Denied(c, fix.msg)
         ELSE IF Truthy(args[3])
         THEN handle_kill_pid(c, args[2], args[3], args[4], x.exec)
         ELSE Reply(c, <<"Invalid PID">>)
    ELSE IF action = <<"kill_process">>
    THEN IF ~fix.allowed THEN Denied(c, fix.msg)
         ELSE handle_kill_process(c, args[2], args[3], args[4], x.exec)
    ELSE IF action = <<"check_logs">>
    THEN handle_check_logs(c, args[2], args[3], x.exec)
    ELSE IF action = <<"back_to_alert">>
    THEN IF Truthy(args[2])
         THEN handle_back_to_alert(c, args[2], x.rfault)
         ELSE Reply(c, <<"Invalid alert reference">>)
    ELSE IF action = <<"ai_analysis">>
    THEN IF Truthy(args[2])
         THEN execute_ai_analysis(c, args[2], x.groq, x.rfault)
         ELSE Reply(c, <<"Invalid AI analysis request">>)
    ELSE IF action = <<"confirm_fix">>
    THEN IF ~fix.allowed THEN Denied(c, fix.msg) ELSE execute_fix(c, args[2])
    ELSE IF action = <<"diag">>
    THEN execute_diagnostic(c, args[2])
    ELSE IF action = <<"restart">>
    THEN IF ~restart.allowed THEN Denied(c, restart.msg)
         ELSE execute_restart(c, args[2])
    ELSE IF action = <<"ack">>
    THEN acknowledge_alert(c, user_id, args[2], x.zbx, x.rfault)
    ELSE IF action = <<"ignore">>
    THEN ignore_alert(c, user_id, args[2], x.rfault)
    ELSE IF action = <<"cancel">>
    THEN Reply(c, <<"Action cancelled.">>)
    ELSE Done(<<>>, c, NoCall, {})

\* x: what the backends do during this invocation
button_callback(c, user_id, data, x) ==
    LET args == Decode(data)
        action == args[1]
        fix == is_authorized(user_id, "fix")
        restart == is_authorized(user_id, "restart")
    IN
    IF IsReport(data)
    THEN Done(<<>>, c, <<Call("reports", data[1], <<>>)>>, {})
    ELSE IF action = <<"restart_service">>
    THEN IF ~restart.allowed THEN Denied(c, restart.msg)
         ELSE execute_service_restart(c, args[2], args[3], x.exec)
    ELSE IF action = <<"check_service">>
    THEN check_service_status(c, args[2], args[3], x.exec, x.status)
    ELSE IF action = <<"diagnostics">>
    THEN execute_host_diagnostic(c, data, args[2], x.exec)
    ELSE IF action = <<"kill_pid">>
    THEN IF ~fix.allowed THEN Denied(c, fix.msg)
         ELSE IF Truthy(args[3])
         THEN handle_kill_pid(c, args[2], args[3], args[4], x.exec)
         ELSE Reply(c, <<"Invalid PID">>)
    ELSE IF action = <<"kill_process">>
    THEN IF ~fix.allowed THEN Denied(c, fix.msg)
         ELSE handle_kill_process(c, args[2], args[3], args[4], x.exec)
    ELSE IF action = <<"check_logs">>
    THEN handle_check_logs(c, args[2], args[3], x.exec)
    ELSE IF action = <<"back_to_alert">>
    THEN IF Truthy(args[2])
         THEN handle_back_to_alert(c, args[2], x.rfault)
         ELSE Reply(c, <<"Invalid alert reference">>)
    ELSE IF action = <<"ai_analysis">>
    THEN IF Truthy(args[2])
         THEN execute_ai_analysis(c, args[2], x.groq, x.rfault)
         ELSE Reply(c, <<"Invalid AI analysis request">>)
    ELSE IF action = <<"confirm_fix">>
    THEN IF ~fix.allowed THEN Denied(c, fix.msg) ELSE execute_fix(c, args[2])
    ELSE IF action = <<"diag">>
    THEN execute_diagnostic(c, args[2])
    ELSE IF action = <<"restart">>
    THEN IF ~restart.allowed THEN Denied(c, restart.msg)
         ELSE execute_restart(c, args[2])
    ELSE IF action = <<"ack">>
    THEN acknowledge_alert(c, user_id, args[2], x.zbx, x.rfault)
    ELSE IF action = <<"ignore">>
    THEN ignore_alert(c, user_id, args[2], x.rfault)
    ELSE IF action = <<"cancel">>
    THEN Reply(c, <<"Action cancelled.">>)
    ELSE Reply(c, <<"Unknown action:">> \o action)

----------------------------------------------------------------------------
(* Backend behaviour during one callback *)

ZbxOutcomes == {"ok", "error_payload", "empty", "exception"}

GroqFailed == [ok |-> FALSE, text |-> <<>>]
GroqOutcomes == {GroqFailed,
                 [ok |-> TRUE, text |-> <<"analysis">>],
                 [ok |-> TRUE, text |-> <<"analysis", "cpu">>],
                 [ok |-> TRUE, text |-> <<"analysis", "service">>]}

Quiet == [exec |-> "success", status |-> "running", zbx |-> "ok",
          groq |-> GroqFailed, rfault |-> FALSE]

\* the backend behaviours that the handler of the token can observe
Inputs(data) ==
    LET verb == SplitOn(data, Colon)[1] IN
    CASE verb \in {<<"restart_service">>, <<"diagnostics">>, <<"kill_pid">>,
                   <<"kill_process">>, <<"check_logs">>} ->
           {[Quiet EXCEPT !.exec = e] : e \in ExecOutcomes}
      [] verb = <<"check_service">> ->
           {[Quiet EXCEPT !.exec = e] : e \in ExecOutcomes}
           \cup {[Quiet EXCEPT !.status = "stopped"]}
      [] verb = <<"ack">> ->
           {[Quiet EXCEPT !.zbx = z] : z \in ZbxOutcomes}
           \cup {[Quiet EXCEPT !.rfault = TRUE]}
      [] verb \in {<<"ignore">>, <<"back_to_alert">>} ->
           {Quiet, [Quiet EXCEPT !.rfault = TRUE]}
      [] verb = <<"ai_analysis">> ->
           {[Quiet EXCEPT !.groq = g] : g \in GroqOutcomes}
           \cup {[Quiet EXCEPT !.rfault = TRUE]}
      [] OTHER -> {Quiet}

----------------------------------------------------------------------------
(* Diagnostic executor services: the run operations *)

\* what the playbook run did: ansible finished "successful" or not, the run
\* exceeded its timeout, something else raised, the playbook file is missing
RunOutcomes == {"successful", "failed", "timeout", "exception", "missing"}

Returned(value) == [raised |-> FALSE, value |-> value]

DiagnosticReport == [metrics |-> [cpu |-> <<ProcNginx>>]]

\* str(e) of the exception caught by `except Exception`; an asyncio.TimeoutError
\* carries no message
ExceptionText(run) == IF run = "timeout" THEN <<>> ELSE <<"boom">>

\* execute_playbook_async without its `except asyncio.TimeoutError` branch (a
\* defect that lets the generic handler report the timeout)
execute_playbook_async_generic_handler(run) ==
    IF run = "successful"
    THEN Returned([status |-> "success", result |-> DiagnosticReport,
                   error |-> None])
    ELSE IF run \in {"failed", "missing"}
    THEN Returned([status |-> "failed", result |-> <<>>,
                   error |-> <<"Playbook", "execution", "failed", "with",
                               "status", "failed">>])
    ELSE Returned([status |-> "failed", result |-> <<>>,
                   error |-> ExceptionText(run)])

\* ansible-api-service: execute_playbook_async(job_id, playbook_name,
\* target_host, extra_vars)
execute_playbook_async(run) ==
    IF run = "successful"
    THEN Returned([status |-> "success", result |-> DiagnosticReport,
                   error |-> None])
    ELSE IF run \in {"failed", "missing"}
    THEN Returned([status |-> "failed", result |-> <<>>,
                   error |-> <<"Playbook", "execution", "failed", "with",
                               "status", "failed">>])
    ELSE IF run = "timeout"
    THEN Returned([status |-> "failed", result |-> <<>>,
                   error |-> <<"Timeout", "after", "MAX_EXECUTION_TIME", "s">>])
    ELSE Returned([status |-> "failed", result |-> <<>>,
                   error |-> ExceptionText(run)])

\* ansible-executor api_server: AnsibleRunner.run_playbook(playbook_name,
\* target_host, extra_vars)
run_playbook(run) ==
    IF run = "missing"
    THEN Returned([status |-> "failed", result |-> <<>>,
                   error |-> <<"Playbook", "not", "found">>])
    ELSE IF run = "successful"
    THEN Returned([status |-> "success",
                   result |-> [stdout |-> <<"ok">>, failed |-> FALSE],
                   error |-> None])
    ELSE IF run = "failed"
    THEN Returned([status |-> "failed",
                   result |-> [stdout |-> <<"fatal">>, failed |-> TRUE],
                   error |-> <<"Playbook", "failed", "exit", "code">>])
    ELSE IF run = "timeout"
    THEN Returned([status |-> "failed", result |-> <<>>,
                   error |-> <<"Playbook", "execution", "timeout", "5",
                               "minutes">>])
    ELSE Returned([status |-> "failed", result |-> <<>>,
                   error |-> ExceptionText(run)])

\* ansible-executor: AnsibleExecutor.run_diagnostic(playbook_name, host,
\* extra_vars); its results carry `success`, not `status`
run_diagnostic(run) ==
    IF run = "successful"
    THEN Returned([success |-> TRUE, data |-> DiagnosticReport, error |-> None])
    ELSE IF run \in {"failed", "missing"}
    THEN Returned([success |-> FALSE, data |-> <<>>,
                   error |-> <<"Playbook", "execution", "failed">>])
    ELSE IF run = "timeout"
    THEN Returned([success |-> FALSE, data |-> <<>>,
                   error |-> <<"Timeout", "after", "MAX_EXECUTION_TIME", "s">>])
    ELSE Returned([success |-> FALSE, data |-> <<>>,
                   error |-> ExceptionText(run)])

\* ansible-executor api_server: the route POST /api/v1/playbook/run, which
\* answers 200 only when the run succeeded
run_playbook_endpoint(run) ==
    LET result == run_playbook(run).value
    IN [status_code |-> IF result.status = "success" THEN 200 ELSE 500,
        body |-> result]

\* the branch a handler of the bot takes on an answer of the executor:
\* `if response.status_code == 200` and then `result.get('status') == 'success'`
ResponseBranch(response) ==
    IF response.status_code # 200 THEN "non200"
    ELSE IF response.body.status = "success" THEN "success"
    ELSE "failed"

RunServices == {"ansible-api-service", "api_server", "ansible_executor"}

RunOperation(service, run) ==
    CASE service = "ansible-api-service" -> execute_playbook_async(run)
      [] service = "api_server" -> run_playbook(run)
      [] OTHER -> run_diagnostic(run)

----------------------------------------------------------------------------
(* The state machine *)

NoAlert == [trigger |-> <<>>, host |-> <<>>, event_id |-> <<>>]

\* the record of a unit of work that did nothing
Idle(op) ==
    [op |-> op, user |-> 0, data |-> <<>>, alert |-> NoAlert, outcome |-> "",
     send |-> "", result |-> <<>>, rfault |-> FALSE, dfault |-> FALSE, http |-> 0, edits |-> <<>>, calls |-> NoCall, writes |-> {},
     rendered |-> {}, m |-> 0, chained |-> FALSE]

Init ==
    /\ cfg \in Configs
    /\ cache = [k \in Keys |-> <<>>]
    /\ msgs = <<>>
    /\ ticks = 0
    /\ posts = 0
    /\ acked = {}
    /\ last = Idle("init")
    /\ pending = <<>>
    /\ recent = [e \in EventIds |-> ""]
    /\ inflight = <<>>

DiagOutcomes == ExecOutcomes \cup {"unreachable"}

DiagInputs ==
    {<<"success", r>> : r \in AnsibleResults}
    \cup {<<o, r>> : o \in DiagOutcomes \ {"success"}, r \in AnsibleResults}

IsVariant(text) == Len(text) > 0 /\ text[1] \in {"ACKNOWLEDGED", "IGNORED"}

\* the latest stored message of each alert id after the writes of one request
Stored(rec, writes) ==
    [e \in EventIds |->
        IF <<"acknowledged_alert", e>> \in writes THEN "acknowledged_alert"
        ELSE IF <<"original_alert", e>> \in writes THEN "original_alert"
        ELSE rec[e]]

\* Zabbix posts an alert to /webhook
Ingest ==
    /\ posts < MaxPosts
    /\ posts' = posts + 1
    /\ \E alert_data \in Alerts, d \in DiagInputs,
          send \in SendOutcomes, rfault \in BOOLEAN, dfault \in BOOLEAN :
         \E r \in {webhook(cache, alert_data, d[1], d[2], send, rfault, dfault)} :
            /\ cache' = r.cache
            /\ msgs' = IF r.posted = <<>> THEN msgs
                       ELSE Append(msgs, [text |-> r.posted[1].text,
                                          buttons |-> r.posted[1].buttons,
                                          acked |-> FALSE])
            /\ last' = [Idle("webhook") EXCEPT
                          !.alert = alert_data, !.outcome = d[1],
                          !.send = send,
                          !.result = <<[payload |-> d[2],
                                        returned |-> run_diagnostics(d[1], d[2])]>>,
                          !.rfault = rfault, !.dfault = dfault,
                          !.http = r.http, !.calls = r.calls, !.writes = r.writes,
                          !.rendered = r.rendered,
                          !.m = IF r.posted = <<>> THEN 0 ELSE Len(msgs) + 1]
            /\ recent' = Stored(recent, r.writes)
    /\ UNCHANGED <<cfg, ticks, acked, pending, inflight>>

Rendered(edits) == UNION {edits[i].rendered : i \in 1..Len(edits)}

\* what the backend the handler of the token talks to did
Outcome(data, x) ==
    LET verb == SplitOn(data, Colon)[1] IN
    CASE verb \in {<<"restart_service">>, <<"diagnostics">>, <<"kill_pid">>,
                   <<"kill_process">>, <<"check_logs">>, <<"check_service">>} -> x.exec
      [] verb = <<"ack">> -> x.zbx
      [] verb = <<"ai_analysis">> -> IF x.groq.ok THEN "ok" ELSE "exception"
      [] OTHER -> ""

Callback(op, m, user_id, data, x, r) ==
    [Idle(op) EXCEPT
        !.user = user_id, !.data = data, !.outcome = Outcome(data, x),
        !.rfault = x.rfault,
        !.edits = r.edits,
        !.calls = r.calls, !.writes = r.writes, !.rendered = Rendered(r.edits),
        !.m = m, !.chained = IF m = 0 THEN FALSE ELSE msgs[m].acked]

\* the bot handles the press of one button of message m
Press(m, user_id, button, x) ==
         \E r \in {button_callback(cache, user_id, button.callback_data, x)} :
          LET data == button.callback_data
              final == r.edits[Len(r.edits)]
              verb == SplitOn(data, Colon)[1]
          IN /\ cache' = r.cache
             /\ msgs' = IF r.edits = <<>> THEN msgs
                        ELSE [msgs EXCEPT ![m] =
                                [text |-> final.text, buttons |-> final.buttons,
                                 acked |-> msgs[m].acked \/ IsVariant(final.text)]]
             /\ acked' = IF verb = <<"ack">> /\ r.edits # <<>>
                            /\ final.text[1] = "ACKNOWLEDGED"
                         THEN acked \cup {Decode(data)[2]}
                         ELSE acked
             /\ last' = Callback("callback", m, user_id, data, x, r)
             /\ recent' = Stored(recent, r.writes)
             /\ UNCHANGED <<cfg, ticks, posts, pending, inflight>>

\* a user presses a button of a displayed alert message
Click ==
    \E m \in 1..Len(msgs), user_id \in Users :
      \E button \in ButtonsOf(msgs[m].buttons) :
        \E x \in Inputs(button.callback_data) : Press(m, user_id, button, x)

\* tokens of buttons on messages the chat above does not hold (the /fix
\* confirmation, the diagnostic report, the AI chat reply, the report menu),
\* and tokens that no renderer emits
OtherTokens ==
    {Join(<<<<"confirm_fix">>, <<"e1">>>>), Join(<<<<"cancel">>, <<"e1">>>>),
     Join(<<<<"diag">>, <<"e1">>>>), Join(<<<<"restart">>, <<"e1">>>>),
     Join(<<<<"kill_pid">>, Host>>), <<"list_all">>, <<"report_daily">>}

\* These handlers read neither the cache nor the chat, so it is enough to run
\* them before the first alert arrives.
OtherClick ==
    /\ posts = 0
    /\ \E user_id \in Users, data \in OtherTokens :
         \E r \in {button_callback(cache, user_id, data, Quiet)} :
            /\ cache' = r.cache
            /\ last' = Callback("other", 0, user_id, data, Quiet, r)
            /\ UNCHANGED <<cfg, msgs, ticks, posts, acked, pending, recent, inflight>>

\* TickStep seconds pass
Tick ==
    /\ ticks < MaxTicks
    /\ ticks' = ticks + 1
    /\ cache' = Expire(cache, TickStep)
    /\ last' = Idle("tick")
    /\ UNCHANGED <<cfg, msgs, posts, acked, pending, recent, inflight>>

\* an executor service runs one playbook.  The run touches neither the cache
\* nor the chat, so it is enough to run it before the first alert arrives.
Execute ==
    /\ posts = 0
    /\ \E service \in RunServices, run \in RunOutcomes :
         \E r \in {RunOperation(service, run)} :
            last' = [Idle("run") EXCEPT !.data = <<service>>, !.outcome = run,
                                        !.result = <<r>>]
    /\ UNCHANGED <<cfg, cache, msgs, ticks, posts, acked, pending, recent, inflight>>

Next == Ingest \/ Click \/ OtherClick \/ Tick \/ Execute

Spec == Init /\ [][Next]_vars

----------------------------------------------------------------------------
(* Ingestion step by step, with the bot running beside it *)

\* one alert, posted again by Zabbix under the same event id
RaceAlert == Alert(TrigCpu, <<"e1">>)
RaceResult == [metrics |-> [cpu |-> <<ProcNginx, ProcIdle>>]]

InitRace == Init /\ \A k \in DOMAIN cfg : cfg[k]

\* webhook() up to the answer of sendMessage: alert_data is cached and the
\* message is in the chat; the cache is as webhook() leaves it when the setex
\* of the original alert has not happened
Receive ==
    /\ posts < MaxReposts
    /\ pending = <<>>
    /\ posts' = posts + 1
    /\ \E r \in {webhook(cache, RaceAlert, "success", RaceResult, "ok", TRUE, FALSE)} :
         /\ cache' = r.cache
         /\ msgs' = Append(msgs, [text |-> r.posted[1].text,
                                  buttons |-> r.posted[1].buttons,
                                  acked |-> FALSE])
         /\ pending' = <<[event_id |-> RaceAlert.event_id,
                          message |-> r.posted[1].text,
                          buttons |-> r.posted[1].buttons]>>
         /\ last' = [Idle("send") EXCEPT
                       !.alert = RaceAlert, !.outcome = "success",
                       !.calls = r.calls, !.writes = r.writes,
                       !.rendered = r.rendered, !.m = Len(msgs) + 1]
    /\ UNCHANGED <<cfg, ticks, acked, recent, inflight>>

\* send_telegram_alert after the answer: the original alert is cached and
\* webhook() returns
Store ==
    /\ pending # <<>>
    /\ LET p == pending[1]
           key == <<"original_alert", p.event_id>>
       IN /\ cache' = CacheOriginal(cache, p.event_id, p.message, p.buttons)
          /\ recent' = Stored(recent, {key})
          /\ last' = [Idle("webhook") EXCEPT
                        !.alert = RaceAlert, !.outcome = "success", !.http = 200,
                        !.writes = {key}, !.m = Len(msgs)]
    /\ pending' = <<>>
    /\ UNCHANGED <<cfg, msgs, ticks, posts, acked, inflight>>

\* the administrator presses a button while every backend answers normally
ClickRace ==
    \E m \in 1..Len(msgs) :
      \E button \in ButtonsOf(msgs[m].buttons) :
        Press(m, ADMIN_ID, button,
              [Quiet EXCEPT !.groq = [ok |-> TRUE, text |-> <<"analysis">>]])

NextRace == Receive \/ Store \/ ClickRace

SpecRace == InitRace /\ [][NextRace]_vars

----------------------------------------------------------------------------
(* Acknowledge and ignore in two steps: the handler runs up to its
   `await query.edit_message_text`, and stores its variant when it resumes *)

MarkVerbs == {<<"ack">>, <<"ignore">>}

\* acknowledge_alert / ignore_alert up to the edit of the message: the
\* original alert is read, the variant is built and displayed, and the setex
\* of the variant is still to come
MarkBegin ==
    /\ Len(inflight) < MaxMarks
    /\ \E m \in 1..Len(msgs), user_id \in Users, verb \in MarkVerbs :
         LET data == Join(<<verb, RaceAlert.event_id>>)
             key == <<"acknowledged_alert", RaceAlert.event_id>>
             waiting == \E i \in 1..Len(inflight) : ~inflight[i].written
         IN \E r \in {button_callback(cache, user_id, data, Quiet)} :
              LET final == r.edits[Len(r.edits)] IN
              /\ msgs' = [msgs EXCEPT ![m] =
                            [text |-> final.text, buttons |-> final.buttons,
                             acked |-> msgs[m].acked \/ IsVariant(final.text)]]
              /\ acked' = IF verb = <<"ack">> /\ final.text[1] = "ACKNOWLEDGED"
                          THEN acked \cup {RaceAlert.event_id}
                          ELSE acked
              /\ inflight' =
                   IF r.writes = {} THEN inflight
                   ELSE Append([i \in 1..Len(inflight) |->
                                  IF inflight[i].written THEN inflight[i]
                                  ELSE [inflight[i] EXCEPT !.overlap = TRUE]],
                               [user |-> user_id, data |-> data, key |-> key,
                                m |-> m, val |-> r.cache[key][1].val,
                                written |-> FALSE, overlap |-> waiting])
              /\ last' = [Callback("begin", m, user_id, data, Quiet, r)
                            EXCEPT !.writes = {}]
    /\ UNCHANGED <<cfg, cache, ticks, posts, pending, recent>>

\* a handler resumes after the edit: redis_client.setex of its variant
MarkEnd ==
    /\ \E i \in 1..Len(inflight) :
         /\ ~inflight[i].written
         /\ cache' = CacheSetex(cache, inflight[i].key, TTL, inflight[i].val)
         /\ inflight' = [inflight EXCEPT ![i].written = TRUE]
         /\ recent' = Stored(recent, {inflight[i].key})
         /\ last' = [Idle("mark") EXCEPT
                       !.user = inflight[i].user, !.data = inflight[i].data,
                       !.writes = {inflight[i].key},
                       !.result = <<inflight[i]>>, !.m = i]
    /\ UNCHANGED <<cfg, msgs, ticks, posts, acked, pending>>

NextMark == Receive \/ Store \/ MarkBegin \/ MarkEnd

SpecMark == InitRace /\ [][NextMark]_vars

----------------------------------------------------------------------------
(* The bot and the diagnostic executor together: the answer a handler gets
   is the answer of the executor's route to the run it requested *)

ExecTokens ==
    {Join(<<<<"restart_service">>, Host, <<"nginx">>>>),
     Join(<<<<"check_service">>, Host, <<"nginx">>>>),
     Join(<<<<"kill_pid">>, Host, <<"4821">>, <<"e1">>>>),
     Join(<<<<"kill_process">>, Host, <<"nginx">>, <<"e1">>>>)}

\* a user presses a remediation button on message m; the executor runs the
\* playbook the handler requests and the handler renders its answer
RunClick ==
    \E m \in 1..Len(msgs), user_id \in Users, data \in ExecTokens,
       run \in RunOutcomes :
      \E response \in {run_playbook_endpoint(run)} :
        \E r \in {button_callback(cache, user_id, data,
                       [Quiet EXCEPT !.exec = ResponseBranch(response)])} :
          LET final == r.edits[Len(r.edits)] IN
          /\ msgs' = [msgs EXCEPT ![m] =
                        [text |-> final.text, buttons |-> final.buttons,
                         acked |-> msgs[m].acked]]
          /\ last' = [Callback("exec", m, user_id, data,
                               [Quiet EXCEPT !.exec = ResponseBranch(response)], r)
                        EXCEPT !.result = IF r.calls = NoCall THEN <<>>
                                          ELSE <<response>>]
          /\ UNCHANGED <<cfg, cache, ticks, posts, acked, pending, recent, inflight>>

\* tokens that lack an argument their verb reads: the verb alone, or the verb
\* with its first argument only
BareTokens ==
    {<<"restart_service">>, <<"check_service">>, <<"diagnostics">>,
     <<"kill_pid">>, <<"kill_process">>, <<"check_logs">>,
     <<"back_to_alert">>, <<"ai_analysis">>, <<"ack">>, <<"ignore">>,
     Join(<<<<"restart_service">>, Host>>), Join(<<<<"check_service">>, Host>>),
     Join(<<<<"kill_pid">>, Host>>), Join(<<<<"kill_process">>, Host>>)}

\* the bot receives such a token for message m while every backend answers
BareClick ==
    \E m \in 1..Len(msgs), user_id \in Users, data \in BareTokens :
      \E r \in {button_callback(cache, user_id, data, Quiet)} :
        LET final == r.edits[Len(r.edits)] IN
        /\ msgs' = [msgs EXCEPT ![m] =
                      [text |-> final.text, buttons |-> final.buttons,
                       acked |-> msgs[m].acked \/ IsVariant(final.text)]]
        /\ cache' = r.cache
        /\ last' = Callback("bare", m, user_id, data, Quiet, r)
        /\ UNCHANGED <<cfg, ticks, posts, acked, pending, recent, inflight>>

NextExec == Receive \/ Store \/ RunClick \/ BareClick

SpecExec == InitRace /\ [][NextExec]_vars

----------------------------------------------------------------------------
(* The pure functions of the webhook service, applied to bounded inputs *)

TriggerWords == {"CPU", "cpu", "download", "Memory", "program", "disk",
                 "interface", "Service", "not", "running", "stopped", "random"}

\* the trigger texts of at most MaxWords words
Triggers == UNION {[1..n -> TriggerWords] : n \in 0..MaxWords}

\* the values of the trigger, severity and host fields of a key; the empty
\* text is the default of alert_data.get(field, '')
KeyTexts == {<<>>, <<"a">>, <<"a", "b">>}

KeyAlerts == [trigger : KeyTexts, severity : KeyTexts, host : KeyTexts]

\* determine_alert_type is applied to a trigger text
Classify ==
    /\ \E trigger_name \in Triggers :
         last' = [Idle("classify") EXCEPT
                    !.data = trigger_name,
                    !.outcome = determine_alert_type(trigger_name)]
    /\ UNCHANGED <<cfg, cache, msgs, ticks, posts, acked, pending, recent, inflight>>

\* get_cache_key is applied to two alerts, to the first one twice
MakeKeys ==
    /\ \E a \in KeyAlerts, b \in KeyAlerts :
         last' = [Idle("key") EXCEPT
                    !.result = <<[a |-> a, b |-> b,
                                  key_a |-> get_cache_key(a),
                                  again |-> get_cache_key(a),
                                  key_b |-> get_cache_key(b)]>>]
    /\ UNCHANGED <<cfg, cache, msgs, ticks, posts, acked, pending, recent, inflight>>

NextPure == Classify \/ MakeKeys

SpecPure == InitRace /\ [][NextPure]_vars

----------------------------------------------------------------------------
(* Properties *)

\* the verb of the token the last callback carried
LastVerb == Decode(last.data)[1]

\* the message text the last callback left on the screen
LastFinal == last.edits[Len(last.edits)]

C1_Sent ==
    /\ last.op = "webhook" /\ last.http = 200
    /\ last.m # 0
    /\ last.alert.event_id # <<>>
    /\ cfg.wh_redis /\ ~last.rfault

Permission(verb) ==
    CASE verb \in {<<"restart_service">>, <<"restart">>} -> "restart"
      [] verb \in {<<"kill_pid">>, <<"kill_process">>, <<"confirm_fix">>} -> "fix"
      [] verb \in {<<"diagnostics">>, <<"diag">>} -> "diag"
      [] verb = <<"ack">> -> "ack"
      [] verb = <<"ignore">> -> "ignore"
      [] OTHER -> ""

\* C2 as stated: a callback performs the work of its verb (a request to a
\* backend, a cache write) only if is_authorized allows the caller's role the
\* permission of that verb.
C2_WorkOnlyIfAuthorized ==
    (/\ last.op \in {"callback", "other"}
     /\ Permission(LastVerb) # ""
     /\ last.calls # NoCall \/ last.writes # {})
    => is_authorized(last.user, Permission(LastVerb)).allowed

\* C3 as stated: once an alert has been acknowledged, back_to_alert shows the
\* ACKNOWLEDGED banner without acknowledge or ignore buttons (the cache being
\* reachable).
C3_AlwaysAcknowledged ==
    (/\ last.op = "callback" /\ LastVerb = <<"back_to_alert">>
     /\ Decode(last.data)[2] \in acked
     /\ cfg.bot_redis /\ ~last.rfault)
    => /\ LastFinal.text[1] = "ACKNOWLEDGED"
       /\ \A b \in ButtonsOf(LastFinal.buttons) :
            Decode(b.callback_data)[1] \notin {<<"ack">>, <<"ignore">>}

\* the case of C3: back_to_alert ran with the cache reachable while the
\* variant that acknowledge_alert stored is in the cache
C3_VariantLive ==
    /\ last.op = "callback" /\ LastVerb = <<"back_to_alert">>
    /\ cfg.bot_redis /\ ~last.rfault
    /\ LET v == CacheGet(cache, <<"acknowledged_alert", Decode(last.data)[2]>>)
       IN v # <<>> /\ v[1].val.message_text[1] = "ACKNOWLEDGED"

\* C3 amended: while the variant stored by acknowledge_alert has not expired,
\* back_to_alert shows that variant (ACKNOWLEDGED banner, no acknowledge and no
\* ignore button), writes nothing to the cache, and repeating it yields the
\* same message.
C3_AcknowledgedWhileCached ==
    C3_VariantLive =>
        LET event_id == Decode(last.data)[2]
            v == CacheGet(cache, <<"acknowledged_alert", event_id>>)[1].val
            again == handle_back_to_alert(cache, event_id, FALSE)
        IN /\ LastFinal.text = v.message_text
           /\ LastFinal.text[1] = "ACKNOWLEDGED"
           /\ LastFinal.buttons = v.buttons
           /\ \A b \in ButtonsOf(LastFinal.buttons) :
                Decode(b.callback_data)[1] \notin {<<"ack">>, <<"ignore">>}
           /\ last.writes = {}
           /\ again.edits = last.edits /\ again.cache = cache

C3_Witness ==
    /\ C3_VariantLive
    /\ CacheGet(cache, <<"original_alert", Decode(last.data)[2]>>) # <<>>

\* C4: kill_pid or kill_process pressed by a VIEWER is answered with
\* "Permission denied. fix requires ADMIN role." and nothing else: no request
\* to the executor and no change of the cache.
C4_ViewerKillDenied ==
    [][(/\ last'.op \in {"callback", "other"}
        /\ Decode(last'.data)[1] \in KillVerbs
        /\ get_user_role(last'.user) = "VIEWER")
       => /\ Len(last'.edits) = 1
          /\ last'.edits[1].text =
               <<"[locked]", "Permission denied.", "fix", "requires", "ADMIN",
                 "role.">>
          /\ last'.edits[1].buttons = <<>>
          /\ last'.calls = NoCall
          /\ last'.writes = {}
          /\ cache' = cache]_vars

C4_Witness ==
    /\ last.op = "callback" /\ LastVerb = <<"kill_pid">>
    /\ get_user_role(last.user) = "VIEWER"
    /\ Len(Decode(last.data)) = 4 /\ Truthy(Decode(last.data)[3])

\* the case of C5: acknowledge (accepted by Zabbix) or ignore ran and read
\* the original alert from the cache
C5_Marked ==
    /\ last.op = "callback" /\ LastVerb \in {<<"ack">>, <<"ignore">>}
    /\ LastVerb = <<"ack">> => last.outcome = "ok"
    /\ cfg.bot_redis /\ ~last.rfault
    /\ CacheGet(cache, <<"original_alert", Decode(last.data)[2]>>) # <<>>

C6_NoRemediationAfterMark ==
    ~(/\ last.op = "callback" /\ last.chained
      /\ \E i \in 1..Len(last.calls) :
           /\ last.calls[i].to = "executor"
           /\ last.calls[i].what \in {"kill_pid", "kill_process", "restart_service"})

\* the first line of each progress indicator of bot.py
ProgressTitles ==
    {"Restarting service...", "Checking service status...", "Running diagnostics...",
     "Killing Process...", "Killing Processes...", "Fetching Logs...",
     "Generating AI Analysis...", "Executing fix", "Running diagnostic for",
     "Restarting service for"}

\* the case of C7: the last callback put a progress indicator on the screen
C7_ShowedProgress ==
    /\ last.op \in {"callback", "other"}
    /\ \E i \in 1..Len(last.edits) : last.edits[i].text[1] \in ProgressTitles

\* C7: a callback that showed a progress indicator replaced it before it
\* returned: its last edit is a result or an error, never a progress
\* indicator, whatever the backend did.
C7_ProgressReplaced ==
    C7_ShowedProgress =>
        /\ Len(last.edits) >= 2
        /\ LastFinal.text[1] \notin ProgressTitles
        /\ msgs # <<>> /\ last.m # 0 => msgs[last.m].text = LastFinal.text

C7_Witness ==
    /\ C7_ShowedProgress
    /\ LastVerb = <<"restart_service">>
    /\ last.outcome = "timeout"
    /\ LastFinal.text = <<"Timeout">>

\* C8: ai_analysis pressed while alert_data:<id> is absent from a reachable
\* cache is answered with "Alert data expired or not available"; the provider
\* is not called and the cache is left as it was.
C8_MissingAlertData ==
    [][(/\ last'.op = "callback"
        /\ Decode(last'.data)[1] = <<"ai_analysis">>
        /\ cfg.bot_redis /\ ~last'.rfault
        /\ CacheGet(cache, <<"alert_data", Decode(last'.data)[2]>>) = <<>>)
       => /\ last'.edits[Len(last'.edits)].text =
               <<"Alert Data Not Found", "Alert data expired or not available.">>
          /\ last'.calls = NoCall
          /\ last'.writes = {}
          /\ cache' = cache]_vars

C8_Witness ==
    /\ last.op = "callback" /\ LastVerb = <<"ai_analysis">>
    /\ cfg.bot_redis /\ cfg.wh_redis /\ ~last.rfault
    /\ ticks = MaxTicks
    /\ LastFinal.text[1] = "Alert Data Not Found"

\* C9 as stated: splitting a rendered token on ':' gives back the verb and the
\* arguments it was rendered from.
C9_RoundTrip ==
    \A fields \in last.rendered : Decode(Join(fields)) = fields

\* the number of fields button_callback reads for a verb
DecoderArity(verb) == Len(Decode(verb))

\* C10 as stated: every rendered token has as many fields as the decoder
\* reads for its verb.
C10_FixedArity ==
    \A fields \in last.rendered : Len(fields) = DecoderArity(fields[1])

\* the case of C11: back_to_alert ran with the cache reachable
C11_Restoring ==
    /\ last.op = "callback" /\ LastVerb = <<"back_to_alert">>
    /\ cfg.bot_redis /\ ~last.rfault

\* C11: with the cache reachable, back_to_alert shows the acknowledged or
\* ignored variant if it is cached; otherwise the original alert if it is
\* cached; otherwise a reconstruction from alert_data if that is cached;
\* otherwise the "cache expired" reply.
C11_Precedence ==
    [][(/\ last'.op = "callback"
        /\ Decode(last'.data)[1] = <<"back_to_alert">>
        /\ cfg.bot_redis /\ ~last'.rfault) =>
        LET event_id == Decode(last'.data)[2]
            variant == CacheGet(cache, <<"acknowledged_alert", event_id>>)
            original == CacheGet(cache, <<"original_alert", event_id>>)
            pair == CacheGet(cache, <<"alert_data", event_id>>)
            shown == last'.edits[Len(last'.edits)]
        IN /\ Len(last'.edits) = 1
           /\ IF variant # <<>>
              THEN /\ shown.text = variant[1].val.message_text
                   /\ shown.buttons = variant[1].val.buttons
              ELSE IF original # <<>>
              THEN /\ shown.text = original[1].val.message_text
                   /\ shown.buttons = original[1].val.buttons
              ELSE IF pair # <<>>
              THEN /\ shown.text[1] = "Alert Restored"
                   /\ shown.text = <<"Alert Restored">> \o pair[1].val.alert.trigger
                                   \o <<"host">> \o pair[1].val.alert.host
                   /\ shown.buttons =
                        << <<[text |-> "Get AI Analysis",
                              callback_data |-> <<"ai_analysis", Colon>> \o event_id]>>,
                           <<[text |-> "Run Diagnostics",
                              callback_data |-> <<"diagnostics", Colon>>
                                                \o pair[1].val.alert.host]>> >>
              ELSE /\ shown.text = <<"Original Alert Not Found",
                                     "Alert cache has expired.">>
                   /\ shown.buttons = <<>>]_vars

\* the reconstruction was shown: neither stored message is cached
C11_Witness ==
    /\ C11_Restoring
    /\ LastFinal.text[1] = "Alert Restored"
    /\ CacheGet(cache, <<"original_alert", Decode(last.data)[2]>>) = <<>>
    /\ CacheGet(cache, <<"alert_data", Decode(last.data)[2]>>) # <<>>

\* C12 as stated: back_to_alert restores the message of the most recent
\* cache write for the alert id (ingestion, ack or ignore), so after a repeated
\* ingestion it shows the newly ingested original.
C12_MostRecentWriteRestored ==
    (/\ last.op = "callback" /\ LastVerb = <<"back_to_alert">>
     /\ recent[Decode(last.data)[2]] # ""
     /\ CacheGet(cache, <<recent[Decode(last.data)[2]], Decode(last.data)[2]>>) # <<>>)
    => LET event_id == Decode(last.data)[2]
           latest == CacheGet(cache, <<recent[event_id], event_id>>)[1].val
       IN /\ LastFinal.text = latest.message_text
          /\ LastFinal.buttons = latest.buttons

\* C13 as stated: from the moment the notification is in the chat, both
\* original_alert:<id> and alert_data:<id> are cached.
C13_CachedBeforeSent ==
    msgs # <<>> =>
        /\ CacheGet(cache, <<"original_alert", RaceAlert.event_id>>) # <<>>
        /\ CacheGet(cache, <<"alert_data", RaceAlert.event_id>>) # <<>>

\* C14: an alert matching the suppression filter makes no call to the
\* diagnostic executor, its notice carries no action buttons, nothing is stored
\* under the alert id, and the request answers 200.
C14_SuppressedAlertBare ==
    (last.op = "webhook" /\ cfg.wh_groq /\ should_skip_alert(last.alert)) =>
        /\ \A i \in 1..Len(last.calls) : last.calls[i].to # "executor"
        /\ last.m # 0 => msgs[last.m].buttons = <<>>
        /\ last.writes = {}
        /\ last.http = 200

\* the request of the last step was an alert that passed the API-key check and
\* the suppression filter
C15_Ingested ==
    last.op = "webhook" /\ cfg.wh_groq /\ ~should_skip_alert(last.alert)

\* C15: whatever the diagnostic call did (success, status failed, non-200,
\* timeout, executor unreachable, other exception), a non-suppressed alert is
\* answered 200, its notification is rendered and handed to Telegram (posted
\* when Telegram accepts it), and alert_data:{id} is cached (when the cache
\* accepts the write) with an empty diagnostic snapshot unless the call
\* succeeded.
C15_DiagnosticFailureTolerated ==
    C15_Ingested =>
        LET key == <<"alert_data", last.alert.event_id>>
            failed == last.outcome # "success"
        IN /\ last.http = 200
           /\ cfg.tg_creds =>
                 \E i \in 1..Len(last.calls) : last.calls[i].to = "telegram"
           /\ (cfg.tg_creds /\ last.send = "ok") =>
                 /\ last.m = Len(msgs) /\ last.m > 0
                 /\ failed => msgs[last.m].text = AlertText(last.alert, <<>>)
                 /\ msgs[last.m].buttons # <<>>
           /\ (cfg.wh_redis /\ ~last.dfault) =>
                 /\ key \in last.writes
                 /\ CacheGet(cache, key) # <<>>
                 /\ CacheGet(cache, key)[1].val.alert = last.alert
                 /\ failed <=> CacheGet(cache, key)[1].val.ansible = <<>>

\* an alert whose diagnostic call timed out was posted and cached with an
\* empty snapshot
C15_Witness ==
    /\ C15_Ingested
    /\ last.outcome = "timeout"
    /\ last.http = 200
    /\ last.m > 0
    /\ CacheGet(cache, <<"alert_data", last.alert.event_id>>) # <<>>
    /\ CacheGet(cache, <<"alert_data", last.alert.event_id>>)[1].val.ansible = <<>>

\* C16: when the notification cannot be delivered during ingestion (Telegram
\* is not configured, the request raises, or the answer is not 200 / not ok),
\* the request does not report success, and the send is made at most once.
C16_SendFailureIsError ==
    (/\ last.op = "webhook" /\ cfg.wh_groq
     /\ (~cfg.tg_creds \/ last.send # "ok")) =>
        /\ last.http # 200
        /\ Cardinality({i \in 1..Len(last.calls) : last.calls[i].to = "telegram"}) <= 1

\* the error text names the timeout
NamesTimeout(error) == Contains(error, "Timeout") \/ Contains(error, "timeout")

\* the last step was a playbook run that exceeded its timeout
C17_TimedOut == last.op = "run" /\ last.outcome = "timeout"

C18_PayloadOnlyOnSuccess ==
    C15_Ingested =>
        LET response == DiagResponse(last.outcome)
            d == last.result[1]
        IN /\ last.http = 200
           /\ IF response.raised = "" /\ response.code = 200
                 /\ response.status = "success"
              THEN d.returned = <<d.payload>>
              ELSE d.returned = <<>>

\* the executor answered 200 with status 'failed' and run_diagnostics
\* returned None
C18_Witness ==
    /\ C15_Ingested
    /\ last.outcome = "failed"
    /\ DiagResponse(last.outcome).code = 200
    /\ last.result[1].returned = <<>>
    /\ last.http = 200

\* the action button_callback passes to is_authorized for a verb ("" when
\* it makes no check)
CheckedAction(verb) ==
    CASE verb \in {<<"restart_service">>, <<"restart">>} -> "restart"
      [] verb \in {<<"kill_pid">>, <<"kill_process">>, <<"confirm_fix">>} -> "fix"
      [] OTHER -> ""

\* C19: wherever the dispatcher calls is_authorized, in whatever state of the
\* cache and the chat, the answer depends on the caller's role and the action
\* alone: allowed exactly when the action is in the permission list of the
\* role, with the same reason text for every caller of that role, and the
\* denied call leaves the cache untouched and makes no request.
C19_AuthorizationPure ==
    [][(/\ last'.op \in {"callback", "other"}
        /\ CheckedAction(Decode(last'.data)[1]) # "")
       => LET action == CheckedAction(Decode(last'.data)[1])
              role == get_user_role(last'.user)
              listed == InList(action, ROLE_PERMISSIONS[role])
              a == is_authorized(last'.user, action)
          IN /\ a.allowed <=> listed
             /\ \A u \in Users : get_user_role(u) = role =>
                   is_authorized(u, action) = a
             /\ (last'.edits = <<Show(<<"[locked]">> \o a.msg, <<>>)>>) <=> ~listed
             /\ ~listed => /\ cache' = cache
                           /\ last'.calls = NoCall
                           /\ last'.writes = {}]_vars

\* a VIEWER pressed Restart Service on a posted alert and was denied
C19_Witness ==
    /\ last.op = "callback" /\ LastVerb = <<"restart_service">>
    /\ get_user_role(last.user) = "VIEWER"
    /\ ~is_authorized(last.user, "restart").allowed
    /\ last.edits = <<Show(<<"[locked]">> \o is_authorized(last.user, "restart").msg,
                           <<>>)>>

\* caller ids: the administrator of the table and ids the table does not hold
CallerIds == {ADMIN_ID, GUEST_ID, UNLISTED_OPERATOR_ID, 0}

Subsumes(higher, lower) ==
    \A i \in 1..Len(ROLE_PERMISSIONS[lower]) :
        InList(ROLE_PERMISSIONS[lower][i], ROLE_PERMISSIONS[higher])

\* C20: every caller id outside USER_ROLES has the role VIEWER, every action
\* of VIEWER is an action of OPERATOR and every action of OPERATOR is an
\* action of ADMIN; a callback of such a caller is decided by the VIEWER list.
C20_DefaultViewerLeastPrivileged ==
    /\ \A u \in CallerIds :
         u \notin DOMAIN USER_ROLES => get_user_role(u) = "VIEWER"
    /\ Subsumes("OPERATOR", "VIEWER")
    /\ Subsumes("ADMIN", "OPERATOR")
    /\ (/\ last.op \in {"callback", "other"}
        /\ last.user \notin DOMAIN USER_ROLES
        /\ CheckedAction(LastVerb) # "")
       => /\ get_user_role(last.user) = "VIEWER"
          /\ is_authorized(last.user, CheckedAction(LastVerb)).allowed
               <=> InList(CheckedAction(LastVerb), ROLE_PERMISSIONS["VIEWER"])
          /\ is_authorized(last.user, CheckedAction(LastVerb)).allowed
               => is_authorized(ADMIN_ID, CheckedAction(LastVerb)).allowed

\* a caller outside the table confirmed a fix and was treated as a VIEWER
C20_Witness ==
    /\ last.op = "other" /\ LastVerb = <<"confirm_fix">>
    /\ last.user \notin DOMAIN USER_ROLES
    /\ get_user_role(last.user) = "VIEWER"
    /\ last.calls = NoCall /\ Len(last.edits) = 1
    /\ last.edits[1].text[1] = "[locked]"

\* the verbs button_callback has a branch for
DispatcherVerbs ==
    HostVerbs \cup KillVerbs \cup LegacyVerbs
    \cup {<<"diagnostics">>, <<"check_logs">>, <<"back_to_alert">>,
          <<"ai_analysis">>}

\* the closed verb set: the dispatcher's verbs and the noop of the header
\* button of the analysis keyboard
ClosedVerbs == DispatcherVerbs \cup {<<"noop">>}

\* the reply of the final else of button_callback
UnknownReply(data) ==
    <<Show(<<"Unknown action:">> \o SplitOn(data, Colon)[1], <<>>)>>

\* C21 as stated: a token whose verb is outside the closed verb set is
\* answered with "Unknown action", no cache entry is written and no backend is
\* called.
C21_UnknownVerbRejected ==
    [][(/\ last'.op \in {"callback", "other"}
        /\ SplitOn(last'.data, Colon)[1] \notin ClosedVerbs)
       => /\ last'.edits = UnknownReply(last'.data)
          /\ last'.calls = NoCall
          /\ last'.writes = {}
          /\ cache' = cache]_vars

\* C21 amended: a token that does not start with report_, html_ or email_ and
\* whose verb is outside the closed verb set is answered with "Unknown
\* action", no cache entry is written and no backend is called; a token with
\* one of the three prefixes is handed to handle_report_button.
C21_UnknownVerbRejectedUnlessReport ==
    [][(/\ last'.op \in {"callback", "other"}
        /\ SplitOn(last'.data, Colon)[1] \notin ClosedVerbs)
       => IF IsReport(last'.data)
          THEN last'.edits = <<>> /\ last'.calls # NoCall /\ cache' = cache
          ELSE /\ last'.edits = UnknownReply(last'.data)
               /\ last'.calls = NoCall
               /\ last'.writes = {}
               /\ cache' = cache]_vars

\* the List All Alerts button (token list_all) was pressed and answered with
\* "Unknown action"
C21_Witness ==
    /\ last.op = "other"
    /\ last.data = <<"list_all">>
    /\ last.edits = UnknownReply(last.data)
    /\ last.calls = NoCall

\* C22: cancel and noop are answered with an informational reply ("Action
\* cancelled." for cancel) and never with the unknown-action reply; no cache
\* entry is written and no backend is called.
C22_CancelNoopInformational ==
    [][(/\ last'.op \in {"callback", "other"}
        /\ SplitOn(last'.data, Colon)[1] \in {<<"cancel">>, <<"noop">>})
       => /\ last'.edits # UnknownReply(last'.data)
          /\ SplitOn(last'.data, Colon)[1] = <<"cancel">> =>
                last'.edits = <<Show(<<"Action cancelled.">>, <<>>)>>
          /\ last'.calls = NoCall
          /\ last'.writes = {}
          /\ cache' = cache]_vars

\* C23: of the tokens the dispatcher handles only ack and ignore write to the
\* cache, and they write the variant key of their alert id; every other verb
\* leaves every cache entry as it was, whatever its backend did.
C23_OnlyMarkWrites ==
    [][last'.op \in {"callback", "other"}
       => IF SplitOn(last'.data, Colon)[1] \in {<<"ack">>, <<"ignore">>}
          THEN last'.writes \subseteq
                   {<<"acknowledged_alert", Decode(last'.data)[2]>>}
          ELSE cache' = cache /\ last'.writes = {}]_vars

\* an analysis was requested, the provider was called, the cache holds the
\* alert and nothing was written
C23_Witness ==
    /\ last.op = "callback" /\ LastVerb = <<"ai_analysis">>
    /\ \E i \in 1..Len(last.calls) : last.calls[i].to = "groq"
    /\ CacheGet(cache, <<"alert_data", Decode(last.data)[2]>>) # <<>>
    /\ last.writes = {}

\* C24: an ack or an ignore that displays its status banner or stores its
\* variant has called the upstream event.acknowledge operation for the alert
\* id.
C24_MarkCallsUpstream ==
    [][(/\ last'.op \in {"callback", "other"}
        /\ SplitOn(last'.data, Colon)[1] \in {<<"ack">>, <<"ignore">>}
        /\ \/ last'.writes # {}
           \/ IsVariant(last'.edits[Len(last'.edits)].text))
       => \E i \in 1..Len(last'.calls) :
             /\ last'.calls[i].to = "zabbix"
             /\ last'.calls[i].what = "event.acknowledge"
             /\ last'.calls[i].arg = Decode(last'.data)[2]]_vars

\* C25: when ack / ignore handlers of one alert id overlap, the variant in
\* the cache after a handler has stored is the whole (message, buttons) value
\* of that handler, the latest to write, and the stored variant is always the
\* whole value of one handler that has written.
C25_LaterWriteWins ==
    LET v == CacheGet(cache, <<"acknowledged_alert", RaceAlert.event_id>>) IN
    /\ last.op = "mark" =>
          /\ v # <<>>
          /\ v[1].val = last.result[1].val
          /\ v[1].ttl = TTL
    /\ v # <<>> =>
          \E i \in 1..Len(inflight) :
              inflight[i].written /\ v[1].val = inflight[i].val

\* two handlers with different variants overlapped, both have stored, and the
\* one that began first stored last
C25_Witness ==
    /\ Len(inflight) = 2
    /\ inflight[1].written /\ inflight[2].written
    /\ inflight[1].overlap /\ inflight[2].overlap
    /\ inflight[1].val # inflight[2].val
    /\ last.op = "mark" /\ last.m = 1
    /\ CacheGet(cache, <<"acknowledged_alert", RaceAlert.event_id>>)[1].val
         = inflight[1].val

\* C26: an ack or an ignore leaves the original alert and the alert data of
\* every id as they were, and no request to the webhook and no callback makes
\* an entry disappear: only the passage of time does.
C26_ExpiryOnlyEviction ==
    [][/\ (/\ last'.op \in {"callback", "other"}
           /\ SplitOn(last'.data, Colon)[1] \in MarkVerbs)
          => \A e \in EventIds :
                /\ cache'[<<"original_alert", e>>] = cache[<<"original_alert", e>>]
                /\ cache'[<<"alert_data", e>>] = cache[<<"alert_data", e>>]
       /\ last'.op # "tick"
          => \A k \in Keys : cache[k] # <<>> => cache'[k] # <<>>]_vars

\* an ack stored its variant and the original alert and the alert data of
\* the id are still in the cache
C26_Witness ==
    /\ last.op = "callback" /\ LastVerb = <<"ack">>
    /\ last.writes = {<<"acknowledged_alert", Decode(last.data)[2]>>}
    /\ CacheGet(cache, <<"original_alert", Decode(last.data)[2]>>) # <<>>
    /\ CacheGet(cache, <<"alert_data", Decode(last.data)[2]>>) # <<>>

\* C27: every entry a request or a callback writes is stored with the TTL of
\* one hour, an entry in the cache always has a remaining lifetime between 1
\* second and the TTL, and the passage of time shortens the lifetime of every
\* entry or removes it: no entry is in the cache once the TTL has elapsed
\* since it was written.
C27_LifetimeBounded ==
    [][/\ last'.op # "tick" =>
            \A k \in last'.writes :
                cache'[k] # <<>> /\ cache'[k][1].ttl = TTL
       /\ \A k \in Keys :
            cache'[k] # <<>> => cache'[k][1].ttl > 0 /\ cache'[k][1].ttl <= TTL
       /\ last'.op = "tick" =>
            \A k \in Keys :
                cache'[k] # <<>> =>
                    /\ cache[k] # <<>>
                    /\ cache'[k][1].ttl = cache[k][1].ttl - TickStep]_vars

\* the original alert of e1 was stored and, the TTL having elapsed, is no
\* longer in the cache
C27_Witness ==
    /\ last.op = "tick"
    /\ ticks * TickStep >= TTL
    /\ recent[<<"e1">>] = "original_alert"
    /\ CacheGet(cache, <<"original_alert", <<"e1">>>>) = <<>>

\* C28: the notification posted for a CPU alert whose diagnostic snapshot
\* names a top-consuming process carries a kill button for that process
\* beside the Acknowledge and Ignore buttons.
C28_FirstNoticeOffersKill ==
    (/\ last.op = "webhook" /\ last.m # 0
     /\ determine_alert_type(last.alert.trigger) = "CPU"
     /\ TopProcesses(last.result[1].returned) # <<>>)
    => LET tokens == {Decode(b.callback_data) :
                         b \in ButtonsOf(msgs[last.m].buttons)}
           top == TopProcesses(last.result[1].returned)[1]
       IN /\ \E t \in tokens : t[1] = <<"ack">>
          /\ \E t \in tokens : t[1] = <<"ignore">>
          /\ \E t \in tokens :
                \/ t[1] = <<"kill_pid">> /\ t[3] = top.pid
                \/ t[1] = <<"kill_process">> /\ t[3] = top.command

\* the categories in the order determine_alert_type tests them
CategoryOrder == <<"CPU", "MEMORY", "DISK", "NETWORK", "SERVICE">>

\* the keywords of a category, each a sequence of words
CategoryKeywords(category) ==
    CASE category = "CPU" -> {<<"CPU">>, <<"LOAD">>}
      [] category = "MEMORY" -> {<<"MEMORY">>, <<"SWAP">>, <<"RAM">>}
      [] category = "DISK" -> {<<"DISK">>, <<"SPACE">>, <<"VOLUME">>}
      [] category = "NETWORK" -> {<<"NETWORK">>, <<"INTERFACE">>, <<"BANDWIDTH">>}
      [] category = "SERVICE" ->
           {<<"SERVICE">>, <<"NOT", "RUNNING">>, <<"STOPPED">>}

\* a keyword of the category occurs in the text, whatever the case of the text
Matches(category, text) ==
    \E keyword \in CategoryKeywords(category) :
        IF Len(keyword) = 1
        THEN HasKeyword(UpperText(text), keyword[1])
        ELSE ContainsPair(UpperText(text), keyword[1], keyword[2])

\* the first category of the order with a keyword in the text
FirstMatch(text) ==
    LET hits == SelectSeq(CategoryOrder, LAMBDA category : Matches(category, text))
    IN IF hits = <<>> THEN "UNKNOWN" ELSE hits[1]

\* C29: determine_alert_type returns the first category, in the order CPU,
\* MEMORY, DISK, NETWORK, SERVICE, one of whose keywords occurs in the trigger
\* text whatever its case, and UNKNOWN exactly when no keyword of any category
\* occurs.
C29_FirstCategoryWins ==
    last.op = "classify" =>
        /\ last.outcome \in {"CPU", "MEMORY", "DISK", "NETWORK", "SERVICE", "UNKNOWN"}
        /\ last.outcome = FirstMatch(last.data)
        /\ last.outcome = "UNKNOWN" <=>
              \A i \in 1..Len(CategoryOrder) : ~Matches(CategoryOrder[i], last.data)

\* a text with a keyword of SERVICE before a lower-case keyword of CPU is
\* classified CPU
C29_Witness ==
    /\ last.op = "classify"
    /\ last.data = <<"Service", "cpu">>
    /\ Matches("SERVICE", last.data)
    /\ last.outcome = "CPU"

\* C30: get_cache_key gives the same key for the same alert, and different
\* keys for two alerts that differ in trigger, severity or host.
C30_KeyDistinguishes ==
    last.op = "key" =>
        LET r == last.result[1] IN
        /\ r.again = r.key_a
        /\ r.a # r.b => r.key_a # r.key_b

----------------------------------------------------------------------------
----------------------------------------------------------------------------
\* the verbs whose handlers report a remediation or a diagnostic
ResultVerbs ==
    {<<"restart">>, <<"restart_service">>, <<"kill_pid">>, <<"kill_process">>,
     <<"check_service">>, <<"diag">>, <<"diagnostics">>, <<"confirm_fix">>}

\* the first line of each successful result of bot.py
SuccessTitles ==
    {"Service Restarted Successfully", "Service Status", "Diagnostic Report",
     "Process Killed Successfully", "Processes Killed Successfully",
     "Fix Completed Successfully", "Service restarted successfully for"}

\* C32: a callback of a remediation or diagnostic verb leaves a successful
\* result on the screen only if it called the diagnostic executor during
\* that invocation and the executor answered status=success.
C32_SuccessOnlyFromExecutor ==
    (/\ last.op \in {"callback", "other"}
     /\ LastVerb \in ResultVerbs
     /\ last.edits # <<>>
     /\ LastFinal.text[1] \in SuccessTitles) =>
        /\ \E i \in 1..Len(last.calls) : last.calls[i].to = "executor"
        /\ last.outcome = "success"

----------------------------------------------------------------------------
\* C33: when the run a restart_service, kill_pid, kill_process or
\* check_service handler requested ends with status=failed, the message the
\* handler leaves on the screen carries the error text of the executor's
\* answer (its error field, or the head of the raw body).
C33_FailureShowsExecutorError ==
    (/\ last.op = "exec"
     /\ last.result # <<>>
     /\ LastVerb \in {<<"restart_service">>, <<"kill_pid">>, <<"kill_process">>,
                      <<"check_service">>}
     /\ last.result[1].body.status = "failed") =>
        \/ Contains(LastFinal.text, ExecutorError)
        \/ Contains(LastFinal.text, ResponseText)

----------------------------------------------------------------------------
\* the message offers the Back to Alert button of the alert id
OffersBack(buttons, event_id) ==
    \E button \in ButtonsOf(buttons) :
        button.callback_data = Join(<<<<"back_to_alert">>, event_id>>)

\* C34: when ai_analysis is pressed while alert_data:<id> is in the cache and
\* can be read, the message the handler leaves on the screen offers a
\* back_to_alert button carrying the same id.
C34_CacheHitOffersBack ==
    [][(/\ last'.op = "callback"
        /\ Decode(last'.data)[1] = <<"ai_analysis">>
        /\ cfg.bot_redis /\ ~last'.rfault
        /\ CacheGet(cache, <<"alert_data", Decode(last'.data)[2]>>) # <<>>)
       => OffersBack(last'.edits[Len(last'.edits)].buttons,
                     Decode(last'.data)[2])]_vars

----------------------------------------------------------------------------
\* C35: a missing GROQ_API_KEY is reported by ai_analysis alone, which asks
\* the provider nothing; the ingestion of an alert that is not filtered, with
\* every backend answering, still returns 200, posts the notification and
\* stores the original alert.
C35_MissingCredentialIsLocal ==
    /\ (last.op = "callback" /\ LastVerb = <<"ai_analysis">> /\ ~cfg.bot_groq) =>
            /\ last.calls = NoCall
            /\ LastFinal.text[1] \in {"Groq API Not Configured",
                                       "Alert Data Not Found",
                                       "Cache Retrieval Error"}
    /\ (/\ last.op = "webhook"
        /\ (~cfg.wh_groq \/ ~cfg.bot_groq)
        /\ ~should_skip_alert(last.alert)
        /\ last.alert.event_id # <<>>
        /\ last.outcome = "success" /\ last.send = "ok"
        /\ ~last.rfault /\ ~last.dfault) =>
            /\ last.http = 200
            /\ last.m # 0
            /\ <<"original_alert", last.alert.event_id>> \in last.writes

----------------------------------------------------------------------------
\* the message texts webhook() can post
CanonicalTexts ==
    {AlertText(a, d) : a \in Alerts,
                       d \in {<<>>} \cup {<<r>> : r \in AnsibleResults}}
    \cup {FilteredText(a) : a \in Alerts}

StatusWords == {"ACKNOWLEDGED", "IGNORED"}

\* C36: whatever acks and ignores an alert id has received, the message of
\* its stored variant is one status banner followed by a message text as the
\* webhook posts it: no second banner anywhere in it.
C36_SingleBanner ==
    \A e \in EventIds :
        LET v == CacheGet(cache, <<"acknowledged_alert", e>>) IN
        v # <<>> =>
            LET text == v[1].val.message_text
                rest == SubSeq(text, 4, Len(text))
            IN /\ \E status \in StatusWords, user_id \in Users :
                     SubSeq(text, 1, 3) = Banner(status, user_id)
               /\ rest \in CanonicalTexts
               /\ \A i \in 1..Len(rest) : rest[i] \notin StatusWords

\* an ack and then an ignore of the same id, one after the other, and the
\* variant of the ignore is the stored one
C36_Witness ==
    /\ Len(inflight) = 2
    /\ inflight[1].written /\ inflight[2].written
    /\ ~inflight[1].overlap /\ ~inflight[2].overlap
    /\ inflight[1].val.message_text[1] = "ACKNOWLEDGED"
    /\ inflight[2].val.message_text[1] = "IGNORED"
    /\ CacheGet(cache, <<"acknowledged_alert", RaceAlert.event_id>>)[1].val
         = inflight[2].val
    /\ last.op = "mark" /\ last.m = 2

----------------------------------------------------------------------------
\* the stored message offers the AI Analysis button of the alert id
OffersAnalysis(stored, event_id) ==
    /\ stored # <<>>
    /\ \E button \in ButtonsOf(stored[1].val.buttons) :
         button.callback_data = Join(<<<<"ai_analysis">>, event_id>>)

\* C37: in every state, when the original alert or the acknowledged /
\* ignored variant of an alert id is in the cache and offers the AI Analysis
\* button, alert_data:<id> is in the cache too.
C37_AnalysisDataOutlivesMessage ==
    \A e \in EventIds :
        (\/ OffersAnalysis(CacheGet(cache, <<"original_alert", e>>), e)
         \/ OffersAnalysis(CacheGet(cache, <<"acknowledged_alert", e>>), e))
        => CacheGet(cache, <<"alert_data", e>>) # <<>>

----------------------------------------------------------------------------
\* C38: an ack shows the ACKNOWLEDGED banner and stores the acknowledged
\* variant only when the upstream acknowledge call succeeded; when the call
\* raises or the upstream answers with an error payload, the reply is the
\* failure message and nothing is written to the cache.
C38_BannerOnlyOnUpstreamSuccess ==
    (last.op = "callback" /\ LastVerb = <<"ack">>) =>
        /\ (LastFinal.text[1] = "ACKNOWLEDGED" \/ last.writes # {})
              => last.outcome = "ok"
        /\ last.outcome \in {"exception", "error_payload"}
              => /\ LastFinal.text[1] = "Acknowledge Failed"
                 /\ last.writes = {}

----------------------------------------------------------------------------
\* the replies of button_callback to a token it cannot use
InvalidReplies ==
    {"Invalid PID", "Invalid alert reference", "Invalid AI analysis request"}

\* C39: a token that lacks an argument its verb reads, pressed by the
\* administrator, makes no request to the executor or to Zabbix and is
\* answered with an invalid-request reply.
C39_MissingArgumentRejected ==
    (last.op = "bare" /\ last.user = ADMIN_ID) =>
        /\ last.calls = NoCall
        /\ LastFinal.text[1] \in InvalidReplies

----------------------------------------------------------------------------
\* the alert id a kill_pid, kill_process or check_logs token carries
C40_EventId ==
    LET args == Decode(last.data) IN
    IF LastVerb = <<"check_logs">> THEN args[3] ELSE args[4]

\* C40: when the handler of a kill_pid, kill_process or check_logs token
\* that carries an alert id has run, the message it leaves on the screen
\* offers back_to_alert for that id, whatever the executor did.
C40_BackAlwaysOffered ==
    (/\ last.op = "callback"
     /\ LastVerb \in {<<"kill_pid">>, <<"kill_process">>, <<"check_logs">>}
     /\ last.calls # NoCall
     /\ Truthy(C40_EventId)) =>
        OffersBack(LastFinal.buttons, C40_EventId)

====
